---- MODULE Spec2Model ----
(***************************************************************************)
(* Model of the synchronisation core of bpm (packages/core):               *)
(*   - the wire codec of a Package (packages/package.rs) and signature     *)
(*     verification (packages/utils/signatures.rs),                        *)
(*   - the packages / blockchains repositories (services/db/*.rs),         *)
(*   - PackagesService and BlockchainsService (services/*.rs),             *)
(*   - BlockchainClient::read_packages and HederaBlockchainIO::read        *)
(*     (blockchains/*.rs), as three tasks joined by capacity-1 channels.   *)
(*                                                                         *)
(* Conventions.  Text is a sequence of character codes.  A byte string is  *)
(* a record [len, val]: len is the byte length the code checks, val the    *)
(* content (for keys, hashes and signatures an abbreviated content).       *)
(* A wire message is an RLP item tree, see Data / List below.              *)
(* The i-th message of the ledger has consensus timestamp i (seconds).     *)
(* SHA-256 is taken collision free (a digest is the hashed stream), the    *)
(* wall clock of the host is taken not to step backwards (NowReadings),    *)
(* and last_synchronization, the decimal text of a u64 in the database,    *)
(* is held as the number it parses to.                                     *)
(*                                                                         *)
(* Specifications: Spec (passes over messages that decode), SpecMalformed  *)
(* (passes over messages that do not), SpecCrash (a crash and a restart),  *)
(* SpecStore (passes and direct PackagesService calls), SpecConc (two      *)
(* concurrent process_package_update).                                     *)
(***************************************************************************)
EXTENDS Integers, Sequences, FiniteSets, TLC

\* ------------------------------------------------------------------ bounds

\* Longest ledger (topic) considered.
MaxStream == 2

\* Number of sync passes (BlockchainsService::update) in one behaviour.
MaxPasses == 2

\* Direct PackagesService calls (add / update_package) in one behaviour.
MaxCalls == 2

\* Largest wall-clock reading: the consensus timestamp of the last message.
MaxTime == MaxStream

\* ------------------------------------------------------- program constants

PUBLIC_KEY_LENGTH == 32

SIGNATURE_LENGTH == 64

\* ':' (packages_repository.rs, COMPOSED_KEY_SEPARATOR)
COMPOSED_KEY_SEPARATOR == 58

\* Highest discriminant of PackageStatus (HighlyRecommended = 0x05).
MAX_STATUS == 5

\* mpsc::channel(1) in update, read_packages and the callers of update.
CHANNEL_CAPACITY == 1

\* ------------------------------------------------------------ sequences

RECURSIVE Concat(_)
\* Concatenation of a sequence of sequences.
Concat(ss) == IF ss = <<>> THEN <<>> ELSE Head(ss) \o Concat(Tail(ss))

\* ------------------------------------------------------------ RLP items

\* A data item (byte string) of the wire format.
Data(len, val) == [list |-> FALSE, len |-> len, val |-> val, items |-> <<>>]

\* A text item: the bytes of the string.
Text(s) == Data(Len(s), s)

\* A list item.
List(items) == [list |-> TRUE, len |-> 0, val |-> <<>>, items |-> items]

\* rlp: a u8 is appended as the empty string when 0, else as one byte.
U8Item(n) == IF n = 0 THEN Data(0, <<>>) ELSE Data(1, <<n>>)

\* append_list(&rlp::encode(x)): the list of the single bytes of the encoding
\* of x.  Represented as a list whose only element is the item tree of x.
ByteList(inner) == List(<<inner>>)

RECURSIVE Flatten(_)
\* The raw bytes of an item, abbreviated: a length prefix, then the content.
Flatten(item) ==
    IF item.list
    THEN <<192 + Len(item.items)>>
         \o Concat([i \in 1..Len(item.items) |-> Flatten(item.items[i])])
    ELSE <<128 + item.len>> \o item.val

\* ------------------------------------------------------------- packages

\* ed25519 public keys (VerifyingKey::from_bytes succeeds on them).
KeyA == [len |-> PUBLIC_KEY_LENGTH, val |-> <<170>>]

KeyB == [len |-> PUBLIC_KEY_LENGTH, val |-> <<187>>]

ValidKeyVals == {KeyA.val, KeyB.val}

\* 32 bytes that are not a curve point, and a key one byte short.
BadPointKey == [len |-> PUBLIC_KEY_LENGTH, val |-> <<2>>]

ShortKey == [len |-> PUBLIC_KEY_LENGTH - 1, val |-> <<170>>]

NoSig == [some |-> FALSE, len |-> 0, val |-> <<>>]

\* PackageIntegrity { algorithm: "SHA256", archive_hash }
DefaultIntegrity ==
    [algorithm |-> <<83, 72, 65, 50, 53, 54>>,
     archive_hash |-> [len |-> 32, val |-> <<7>>]]

\* Returned in place of a package when decoding fails.
NoPackage ==
    [name |-> <<>>, version |-> <<>>, status |-> 0,
     maintainer |-> [len |-> 0, val |-> <<>>],
     integrity |-> [algorithm |-> <<>>, archive_hash |-> [len |-> 0, val |-> <<>>]],
     sig |-> NoSig]

\* impl Encodable for PackageIntegrity
IntegrityItem(integrity) ==
    List(<<Text(integrity.algorithm),
           Data(integrity.archive_hash.len, integrity.archive_hash.val)>>)

\* Package::get_rlp_data_stream: the five data items, in this order.
RlpDataItems(p) ==
    <<Text(p.name), Text(p.version), U8Item(p.status),
      Data(p.maintainer.len, p.maintainer.val),
      ByteList(IntegrityItem(p.integrity))>>

\* A mutant of ComputeDataIntegrity: the status is left out of the digest.
ComputeDataIntegrityNoStatus(p) ==
    Concat([i \in 1..(Len(RlpDataItems(p)) - 1) |->
               Flatten(RlpDataItems(p)[IF i < 3 THEN i ELSE i + 1])])

\* Package::compute_data_integrity: SHA-256 of the raw data stream.  The hash
\* is modelled as collision free: the digest is the stream itself.
ComputeDataIntegrity(p) ==
    Concat([i \in 1..Len(RlpDataItems(p)) |-> Flatten(RlpDataItems(p)[i])])

\* ed25519: the signature of digest under the private key of public key `key`.
Ed25519Sign(key, digest) ==
    [some |-> TRUE, len |-> SIGNATURE_LENGTH, val |-> key.val \o digest]

\* sign_package
SignPackage(p, key) == Ed25519Sign(key, ComputeDataIntegrity(p))

\* A mutant of VerifyPackage: the signature is not checked.
VerifyPackageUnchecked(p) == IF p.sig.some THEN "ok" ELSE "panic"

\* verify_package: "ok" (Some), "bad" (None) or "panic" (sig.unwrap() on None).
VerifyPackage(p) ==
    IF ~p.sig.some THEN "panic"
    ELSE IF p.sig = Ed25519Sign(p.maintainer, ComputeDataIntegrity(p))
         THEN "ok" ELSE "bad"

\* impl Encodable for Package: the data items followed by the signature.
\* (Encoding a package without signature panics; see EncodePanics.)
EncodePackage(p) == List(RlpDataItems(p) \o <<Data(p.sig.len, p.sig.val)>>)

EncodePanics(p) == ~p.sig.some

\* ------------------------------------------------------------- decoding

\* Rlp::val_at(i) as String / Vec<u8>: the item must exist and be data.
HasDataAt(raw, i) == raw.list /\ Len(raw.items) >= i /\ ~raw.items[i].list

\* Decoding a u8: empty is 0, one non-zero byte is itself, all else an error.
U8Ok(item) == item.len = 0 \/ (item.len = 1 /\ item.val # <<>> /\ item.val[1] # 0)

U8Value(item) == IF item.len = 0 THEN 0 ELSE item.val[1]

\* A mutant of StatusInRange: every status byte is taken.
StatusAny(n) == TRUE

\* impl TryFrom<u8> for PackageStatus: Ok for 0..=5.
StatusInRange(n) == n <= MAX_STATUS

\* Rlp::list_at::<u8>(i) followed by rlp::decode::<PackageIntegrity>.
IntegrityOk(raw, i) ==
    /\ raw.list /\ Len(raw.items) >= i /\ raw.items[i].list
    /\ Len(raw.items[i].items) = 1
    /\ LET inner == raw.items[i].items[1]
       IN  inner.list /\ HasDataAt(inner, 1) /\ HasDataAt(inner, 2)

IntegrityValue(raw, i) ==
    LET inner == raw.items[i].items[1]
    IN  [algorithm |-> inner.items[1].val,
         archive_hash |-> [len |-> inner.items[2].len, val |-> inner.items[2].val]]

\* impl Decodable for Package, as used by PackageBuilder::from_rlp(..).build():
\* res is "ok", "err" (a DecoderError) or "panic" (copy_from_slice on a wrong
\* length, unwrap of VerifyingKey::from_bytes).
DecodePackage(raw) ==
    LET Fail(how) == [res |-> how, pkg |-> NoPackage] IN
    IF ~HasDataAt(raw, 1) THEN Fail("err")
    ELSE IF ~HasDataAt(raw, 2) THEN Fail("err")
    ELSE IF ~(HasDataAt(raw, 3) /\ U8Ok(raw.items[3])) THEN Fail("err")
    ELSE IF ~StatusInRange(U8Value(raw.items[3])) THEN Fail("err")
    ELSE IF ~HasDataAt(raw, 4) THEN Fail("err")
    ELSE IF raw.items[4].len # PUBLIC_KEY_LENGTH THEN Fail("panic")
    ELSE IF raw.items[4].val \notin ValidKeyVals THEN Fail("panic")
    ELSE IF ~IntegrityOk(raw, 5) THEN Fail("err")
    ELSE IF ~HasDataAt(raw, 6) THEN Fail("err")
    ELSE IF raw.items[6].len # SIGNATURE_LENGTH THEN Fail("panic")
    ELSE [res |-> "ok",
          pkg |-> [name |-> raw.items[1].val,
                   version |-> raw.items[2].val,
                   status |-> U8Value(raw.items[3]),
                   maintainer |-> [len |-> raw.items[4].len, val |-> raw.items[4].val],
                   integrity |-> IntegrityValue(raw, 5),
                   sig |-> [some |-> TRUE, len |-> raw.items[6].len,
                            val |-> raw.items[6].val]]]

\* ------------------------------------------------------------ documents

\* hex::encode of one byte: two lower-case hexadecimal digits.
HexDigit(n) == IF n < 10 THEN 48 + n ELSE 87 + n

HexEncode(bytes) ==
    Concat([i \in 1..Len(bytes) |-> <<HexDigit(bytes[i] \div 16), HexDigit(bytes[i] % 16)>>])

\* The configured clients: available_blockchains() gives one.
Clients == {1}

\* The label of another client of the list given to BlockchainsService::new.
LabelOther == <<116, 101, 115, 116>>

\* BlockchainClient::get_label: "hedera" for the configured client; a second
\* client of the list, where there is one, has its own label.
Label(c) == IF c = 2 THEN LabelOther ELSE <<104, 101, 100, 101, 114, 97>>

\* PackageDocumentBuilder::from_package(package, client).build()
PackageDocument(p, label) ==
    [name |-> p.name,
     version |-> p.version,
     status |-> p.status,
     maintainer |-> HexEncode(p.maintainer.val),
     integrity |-> [algorithm |-> p.integrity.algorithm,
                    archive_hash |-> HexEncode(p.integrity.archive_hash.val)],
     sig |-> HexEncode(p.sig.val),
     blockchain_label |-> label]

\* PackagesRepository::get_composite_key: "{label}:{name}:{version}:{maintainer}"
GetCompositeKey(doc) ==
    doc.blockchain_label \o <<COMPOSED_KEY_SEPARATOR>> \o doc.name
        \o <<COMPOSED_KEY_SEPARATOR>> \o doc.version
        \o <<COMPOSED_KEY_SEPARATOR>> \o doc.maintainer

RECURSIVE SplitFrom(_, _, _)
\* str::split(sep) of s[i..], with `cur` the part read so far.
SplitFrom(s, i, cur) ==
    IF i > Len(s) THEN <<cur>>
    ELSE IF s[i] = COMPOSED_KEY_SEPARATOR
         THEN <<cur>> \o SplitFrom(s, i + 1, <<>>)
         ELSE SplitFrom(s, i + 1, Append(cur, s[i]))

\* PackagesRepository::get_composite_key_parts: the first four parts of the
\* key split at every ':'.
GetCompositeKeyParts(key) ==
    LET parts == SplitFrom(key, 1, <<>>)
    IN  [blockchain_label |-> parts[1], name |-> parts[2],
         version |-> parts[3], maintainer |-> parts[4]]

\* The filter document built by read_by_key and update.
MatchesKeyParts(row, k) ==
    /\ row.name = k.name
    /\ row.version = k.version
    /\ row.maintainer = k.maintainer
    /\ row.blockchain_label = k.blockchain_label

RECURSIVE FirstMatch(_, _, _)
\* Index of the first row from index i on that the filter k selects; 0 if none.
FirstMatch(rows, k, i) ==
    IF i > Len(rows) THEN 0
    ELSE IF MatchesKeyParts(rows[i], k) THEN i
    ELSE FirstMatch(rows, k, i + 1)

\* PackagesRepository::read_by_key / exists_by_key (find_one)
ExistsByKey(rows, key) == FirstMatch(rows, GetCompositeKeyParts(key), 1) # 0

\* PackagesRepository::create (insert_one): a new row, whatever the store holds.
RepoCreate(rows, doc) == Append(rows, doc)

\* A mutant of RepoUpdate: only the status of the row is set.
RepoUpdateStatusOnly(rows, key, doc) ==
    LET i == FirstMatch(rows, GetCompositeKeyParts(key), 1)
    IN  IF i = 0 THEN rows ELSE [rows EXCEPT ![i].status = doc.status]

\* PackagesRepository::update (update_one with $set: document): the first row
\* the filter selects takes every field of the document.
RepoUpdate(rows, key, doc) ==
    LET i == FirstMatch(rows, GetCompositeKeyParts(key), 1)
    IN  IF i = 0 THEN rows ELSE [rows EXCEPT ![i] = doc]

\* PackagesService::exists
ServiceExists(rows, p, label) ==
    ExistsByKey(rows, GetCompositeKey(PackageDocument(p, label)))

\* PackagesService::add
ServiceAdd(rows, p, label) == RepoCreate(rows, PackageDocument(p, label))

\* PackagesService::update_package
ServiceUpdatePackage(rows, p, label) ==
    RepoUpdate(rows, GetCompositeKey(PackageDocument(p, label)), PackageDocument(p, label))

\* A mutant of ProcessPackageUpdate: a package that exists is left as stored.
ProcessPackageUpdateAddOnly(rows, p, label) ==
    IF ServiceExists(rows, p, label)
    THEN rows
    ELSE ServiceAdd(rows, p, label)

\* BlockchainsService::process_package_update, run without interleaving.
ProcessPackageUpdate(rows, p, label) ==
    IF ServiceExists(rows, p, label)
    THEN ServiceUpdatePackage(rows, p, label)
    ELSE ServiceAdd(rows, p, label)

\* hex::decode of text written by hex::encode.
HexValue(c) == IF c < 58 THEN c - 48 ELSE c - 87

HexDecode(text) ==
    [i \in 1..(Len(text) \div 2) |-> 16 * HexValue(text[2 * i - 1]) + HexValue(text[2 * i])]

\* PackageBuilder::from_document(doc).build().  The lengths of the decoded
\* byte strings are those the abbreviated contents stand for: the key and
\* the signature are copied into buffers of their fixed lengths.
PackageFromDocument(doc) ==
    [name |-> doc.name,
     version |-> doc.version,
     status |-> doc.status,
     maintainer |-> [len |-> PUBLIC_KEY_LENGTH, val |-> HexDecode(doc.maintainer)],
     integrity |-> [algorithm |-> doc.integrity.algorithm,
                    archive_hash |-> [len |-> DefaultIntegrity.archive_hash.len,
                                      val |-> HexDecode(doc.integrity.archive_hash)]],
     sig |-> [some |-> TRUE, len |-> SIGNATURE_LENGTH, val |-> HexDecode(doc.sig)]]

\* A mutant of ReadByRelease: the filter has no blockchain_label.
ReadByReleaseAnyLabel(rows, name, version, label) ==
    LET Selected(row) == /\ row.name = name
                         /\ row.version = version
    IN  SelectSeq(rows, Selected)

\* PackagesRepository::read_by_release: find {name, version, blockchain_label}
ReadByRelease(rows, name, version, label) ==
    LET Selected(row) == /\ row.name = name
                         /\ row.version = version
                         /\ row.blockchain_label = label
    IN  SelectSeq(rows, Selected)

\* PackagesRepository::read_by_maintainer: find {maintainer, blockchain_label}
ReadByMaintainer(rows, maintainer, label) ==
    LET Selected(row) == /\ row.maintainer = maintainer
                         /\ row.blockchain_label = label
    IN  SelectSeq(rows, Selected)

\* PackagesService::get_by_maintainer: the rows read for hex::encode(key).
GetByMaintainerDocs(rows, key, label) == ReadByMaintainer(rows, HexEncode(key.val), label)

\* PackagesService::get_by_release
GetByRelease(rows, name, version, label) ==
    LET docs == ReadByRelease(rows, name, version, label)
    IN  [i \in 1..Len(docs) |-> PackageFromDocument(docs[i])]

\* BlockchainsService::find_package, a client being selected.
FindPackage(rows, name, version, c) == GetByRelease(rows, name, version, Label(c))

\* --------------------------------------------------- blockchains repository

RECURSIVE FirstLabel(_, _, _)
\* BlockchainsRepository::read_by_key (find_one {label}): index or 0.
FirstLabel(docs, label, i) ==
    IF i > Len(docs) THEN 0
    ELSE IF docs[i].label = label THEN i
    ELSE FirstLabel(docs, label, i + 1)

\* BlockchainsRepository::update (update_one {label}, $set: document)
BlockchainsUpdate(docs, label, doc) ==
    LET i == FirstLabel(docs, label, 1)
    IN  IF i = 0 THEN docs ELSE [docs EXCEPT ![i] = doc]

\* The persisted watermark of a ledger (0 when it has no document).
PersistedSync(docs, label) ==
    LET i == FirstLabel(docs, label, 1)
    IN  IF i = 0 THEN 0 ELSE docs[i].last_synchronization

\* A mutant of InitBlockchainsDocs: the document is written with 0 whether or
\* not the ledger has one.
InitBlockchainsDocsReset(docs) ==
    <<[label |-> Label(1), last_synchronization |-> 0]>>

\* BlockchainsService::init_blockchains, the effect on the blockchains
\* collection: a document {label, 0} is created for every client without one.
InitBlockchainsDocs(docs) ==
    IF FirstLabel(docs, Label(1), 1) # 0 THEN docs
    ELSE Append(docs, [label |-> Label(1), last_synchronization |-> 0])

\* A mutant of InitBlockchainsSync: the stored watermark is not loaded.
InitBlockchainsSyncKeep(docs, ls) == ls

\* BlockchainsService::init_blockchains, the effect on the clients: the
\* watermark of a client with a document is loaded from it.
InitBlockchainsSync(docs, ls) ==
    [c \in Clients |->
        IF FirstLabel(docs, Label(c), 1) # 0 THEN PersistedSync(docs, Label(c)) ELSE ls[c]]

\* ------------------------------------------------------- ledger messages

NameFoo == <<102, 111, 111>>

NameBar == <<98, 97, 114>>

Version1 == <<49>>

\* A version with an epoch, "1:2".
VersionEpoch == <<49, 58, 50>>

StatusOutdated == 2

StatusFine == 3

Unsigned(name, version, status, key) ==
    [name |-> name, version |-> version, status |-> status, maintainer |-> key,
     integrity |-> DefaultIntegrity, sig |-> NoSig]

\* PackageBuilder ... set_signature(sign_package(..)).build()
Signed(p, key) == [p EXCEPT !.sig = SignPackage(p, key)]

PkgP == Signed(Unsigned(NameFoo, Version1, StatusFine, KeyA), KeyA)

\* The same release and maintainer as PkgP, another status.
PkgP2 == Signed(Unsigned(NameFoo, Version1, StatusOutdated, KeyA), KeyA)

\* The same release as PkgP, another maintainer.
PkgQ == Signed(Unsigned(NameFoo, Version1, StatusFine, KeyB), KeyB)

\* A release whose version holds the separator of the composite key.
PkgE == Signed(Unsigned(NameFoo, VersionEpoch, StatusFine, KeyA), KeyA)

\* PkgP renamed, with the signature of PkgP (test_should_skip_forged_packages).
PkgForged == [PkgP EXCEPT !.name = NameBar]

\* A package of maintainer B whose version is "1:" followed by the hex text
\* of the key of maintainer A.
PkgAlias ==
    Signed(Unsigned(NameFoo, Version1 \o <<COMPOSED_KEY_SEPARATOR>> \o HexEncode(KeyA.val),
                    StatusFine, KeyB), KeyB)

ReplaceItem(raw, i, item) == [raw EXCEPT !.items[i] = item]

\* The undecodable messages, one of each kind.
RawNotList == Text(NameFoo)

RawShortList == List(SubSeq(EncodePackage(PkgP).items, 1, 3))

RawBadStatus == ReplaceItem(EncodePackage(PkgP), 3, U8Item(MAX_STATUS + 1))

\* A package whose status byte is above the last PackageStatus, signed by its
\* maintainer over that byte.
PkgBadStatus == Signed(Unsigned(NameFoo, Version1, MAX_STATUS + 1, KeyA), KeyA)

RawShortKey == ReplaceItem(EncodePackage(PkgP), 4, Data(ShortKey.len, ShortKey.val))

RawBadPoint == ReplaceItem(EncodePackage(PkgP), 4, Data(BadPointKey.len, BadPointKey.val))

RawShortSig ==
    ReplaceItem(EncodePackage(PkgP), 6, Data(SIGNATURE_LENGTH - 1, PkgP.sig.val))

\* Messages that decode: signed packages and a forged one.
DecodableMessages ==
    {EncodePackage(PkgP), EncodePackage(PkgP2), EncodePackage(PkgE),
     EncodePackage(PkgForged)}

\* A signed package among messages that do not decode.
MalformedMessages ==
    {RawNotList, RawShortList, RawBadStatus, RawShortKey, RawBadPoint, RawShortSig,
     EncodePackage(PkgP)}

\* Validly signed packages only.
SignedMessages ==
    {EncodePackage(PkgP), EncodePackage(PkgP2), EncodePackage(PkgQ), EncodePackage(PkgE)}

SignedPackages == {PkgP, PkgP2, PkgQ, PkgE}

\* All sequences over U of length at most n.
SeqsUpTo(U, n) == UNION {[1..k -> U] : k \in 0..n}

\* BlockchainError
BlockchainErrors == {"ConnectionConfig", "ConnectionFailure", "NoPackagesData"}

\* ---------------------------------------------------------------- state

VARIABLES
    ledger,           \* the topic: raw messages, the i-th with timestamp i
    packages,         \* rows of the packages collection, in insertion order
    blockchains,      \* rows of the blockchains collection
    last_sync,        \* HederaBlockchain.last_sync of every client
    selected_client,  \* BlockchainsService.selected_client, 0 for None
    clock,            \* the last wall-clock reading (SystemTime::now, seconds)
    running,          \* the process is up
    upd,              \* the task running BlockchainsService::update
    prod,             \* the task spawned by update: read_packages
    io,               \* the task spawned by read_packages: BlockchainIO::read
    raw_chan,         \* channel io -> read_packages
    pkg_chan,         \* channel read_packages -> update
    out_chan,         \* channel update -> caller (tx_packages_update)
    hist,             \* history of the current pass, read by the properties only
    calls,            \* direct PackagesService calls made so far
    tasks,            \* tasks running process_package_update concurrently
    db_mutex,         \* DbClient.instance: 0 when free, else the holding task
    api               \* the last call of find_package / submit_package / update
                      \* made with its outcome

vars ==
    <<ledger, packages, blockchains, last_sync, selected_client, clock, running,
      upd, prod, io, raw_chan, pkg_chan, out_chan, hist, calls, tasks, db_mutex,
      api>>

passVars == <<upd, prod, io, raw_chan, pkg_chan, out_chan>>

concVars == <<tasks, db_mutex>>

\* A channel: the queued messages, and whether a sender / the receiver lives.
NewChannel == [buf |-> <<>>, tx |-> TRUE, rx |-> TRUE]

NoChannel == [buf |-> <<>>, tx |-> FALSE, rx |-> FALSE]

HasRoom(ch) == Len(ch.buf) < CHANNEL_CAPACITY

RawOk(raw) == [ok |-> TRUE, raw |-> raw, err |-> "none"]

RawErr(e) == [ok |-> FALSE, raw |-> List(<<>>), err |-> e]

PkgOk(p) == [ok |-> TRUE, pkg |-> p, err |-> "none"]

\* A mutant of PkgErr: the error sent on is not the one that was reported.
PkgErrOther(e) == [ok |-> FALSE, pkg |-> NoPackage, err |-> "NoPackagesData"]

PkgErr(e) == [ok |-> FALSE, pkg |-> NoPackage, err |-> e]

IdleUpd == [pc |-> "idle", client |-> 0, selected |-> 0, pkg |-> NoPackage, result |-> "none"]

IdleProd == [pc |-> "idle", client |-> 0, pkg |-> NoPackage, err |-> "none"]

IdleIo == [pc |-> "idle", start |-> 0, first |-> 0, cursor |-> 0]

NoHist ==
    [pass |-> 0, startSync |-> 0, startDoc |-> 0, startStore |-> <<>>,
     prevOk |-> FALSE, prevFirst |-> 0, prevCursor |-> 0,
     delivered |-> <<>>, stored |-> <<>>, crashed |-> FALSE, crashK |-> 0]

NoTasks == [t \in {} |-> 0]

\* No call of the service has been made.
NoCall == [op |-> "none", selected |-> 0, outcome |-> "none", found |-> <<>>]

\* The wall-clock readings possible after `c` was read: the clock of the
\* host does not step backwards.
NowReadings(c) == c..MaxTime

\* update has returned and the tasks it spawned have ended.
UpdTerminal == {"idle", "ok", "err"}

ProdTerminal == {"idle", "done", "failed", "panicked"}

IoTerminal == {"idle", "done", "failed", "errored", "aborted"}

PassIdle ==
    /\ upd.pc \in UpdTerminal
    /\ prod.pc \in ProdTerminal
    /\ io.pc \in IoTerminal
    /\ out_chan.buf = <<>>

\* The state after construction: BlockchainsService::new has run
\* init_blockchains on an empty database; no client is selected.
InitCommon ==
    /\ packages = <<>>
    /\ blockchains = InitBlockchainsDocs(<<>>)
    /\ last_sync = [c \in Clients |-> 0]
    /\ selected_client = 0
    /\ clock = 0
    /\ running = TRUE
    /\ upd = IdleUpd
    /\ prod = IdleProd
    /\ io = IdleIo
    /\ raw_chan = NoChannel
    /\ pkg_chan = NoChannel
    /\ out_chan = NewChannel
    /\ hist = NoHist
    /\ calls = 0
    /\ db_mutex = 0
    /\ api = NoCall

Init ==
    /\ ledger \in SeqsUpTo(DecodableMessages, MaxStream)
    /\ tasks = NoTasks
    /\ InitCommon

\* ------------------------------------------------- BlockchainsService

\* set_client(client_idx), called between passes, as the command line does
\* before it runs a command.
SetClient(c) ==
    /\ running
    /\ PassIdle
    /\ selected_client' = c
    /\ UNCHANGED <<ledger, packages, blockchains, last_sync, clock, running,
                   passVars, hist, calls, concVars, api>>

\* init_blockchains, called between passes.
InitBlockchains ==
    /\ running
    /\ PassIdle
    /\ blockchains' = InitBlockchainsDocs(blockchains)
    /\ last_sync' = InitBlockchainsSync(blockchains, last_sync)
    /\ UNCHANGED <<ledger, packages, selected_client, clock, running,
                   passVars, hist, calls, concVars, api>>

\* update of a service that no other caller shares, up to the receiving
\* loop: the channel is created, the selected
\* client is read (get_selected_client panics when there is none), the task
\* that runs read_packages is spawned, the selected client is read again.
UpdateStart ==
    /\ running
    /\ PassIdle
    /\ selected_client # 0
    /\ hist.pass < MaxPasses
    /\ upd' = [IdleUpd EXCEPT !.pc = "recv", !.client = selected_client,
                               !.selected = selected_client]
    /\ prod' = [IdleProd EXCEPT !.pc = "start", !.client = selected_client]
    /\ io' = IdleIo
    /\ raw_chan' = NoChannel
    /\ pkg_chan' = NewChannel
    /\ hist' = [hist EXCEPT
                  !.pass = @ + 1,
                  !.startSync = last_sync[selected_client],
                  !.startDoc = PersistedSync(blockchains, Label(selected_client)),
                  !.startStore = packages,
                  !.prevOk = (upd.pc = "ok" /\ prod.pc = "done" /\ io.pc = "done"),
                  !.prevFirst = io.first,
                  !.prevCursor = io.cursor,
                  !.delivered = <<>>,
                  !.stored = <<>>]
    /\ UNCHANGED <<ledger, packages, blockchains, last_sync, selected_client, clock,
                   running, out_chan, calls, concVars, api>>

\* set_client(client_idx) on the shared service: it takes &self and the mutex
\* of the selected index, whether or not a pass is running.
SetClientShared(c) ==
    /\ running
    /\ selected_client' = c
    /\ UNCHANGED <<ledger, packages, blockchains, last_sync, clock, running,
                   passVars, hist, calls, concVars, api>>

\* update, up to the spawn: the channel is created, get_selected_client gives
\* `client`, the task that runs client.read_packages is spawned.
UpdateSpawn ==
    /\ running
    /\ PassIdle
    /\ selected_client # 0
    /\ hist.pass < MaxPasses
    /\ upd' = [IdleUpd EXCEPT !.pc = "select", !.client = selected_client]
    /\ prod' = [IdleProd EXCEPT !.pc = "start", !.client = selected_client]
    /\ io' = IdleIo
    /\ raw_chan' = NoChannel
    /\ pkg_chan' = NewChannel
    /\ hist' = [hist EXCEPT
                  !.pass = @ + 1,
                  !.startSync = last_sync[selected_client],
                  !.startDoc = PersistedSync(blockchains, Label(selected_client)),
                  !.startStore = packages,
                  !.prevOk = (upd.pc = "ok" /\ prod.pc = "done" /\ io.pc = "done"),
                  !.prevFirst = io.first,
                  !.prevCursor = io.cursor,
                  !.delivered = <<>>,
                  !.stored = <<>>]
    /\ UNCHANGED <<ledger, packages, blockchains, last_sync, selected_client, clock,
                   running, out_chan, calls, concVars, api>>

\* update, after the spawn: get_selected_client gives `selected_client`, the
\* client that process_package_update is called with.
UpdateSelect ==
    /\ upd.pc = "select"
    /\ selected_client # 0
    /\ upd' = [upd EXCEPT !.pc = "recv", !.selected = selected_client]
    /\ UNCHANGED <<ledger, packages, blockchains, last_sync, selected_client, clock,
                   running, prod, io, raw_chan, pkg_chan, out_chan, hist, calls,
                   concVars, api>>

\* update: one turn of the receiving loop up to the send on the out channel:
\* Err(e) returns Err(e); Ok(package) runs process_package_update.
UpdateRecv ==
    /\ upd.pc = "recv"
    /\ pkg_chan.buf # <<>>
    /\ LET m == Head(pkg_chan.buf) IN
       IF m.ok
       THEN /\ packages' = ProcessPackageUpdate(packages, m.pkg, Label(upd.selected))
            /\ upd' = [upd EXCEPT !.pc = "forward", !.pkg = m.pkg]
            /\ pkg_chan' = [pkg_chan EXCEPT !.buf = Tail(@)]
            /\ hist' = [hist EXCEPT !.stored =
                          IF \E i \in 1..Len(packages') :
                                 packages'[i] = PackageDocument(m.pkg, Label(upd.selected))
                          THEN Append(@, m.pkg) ELSE @]
       ELSE /\ upd' = [upd EXCEPT !.pc = "err", !.result = m.err]
            /\ pkg_chan' = [pkg_chan EXCEPT !.buf = <<>>, !.rx = FALSE]
            /\ UNCHANGED <<packages, hist>>
    /\ UNCHANGED <<ledger, blockchains, last_sync, selected_client, clock, running,
                   prod, io, raw_chan, out_chan, calls, concVars, api>>

\* update: tx_packages_update.send(package).await
UpdateForward ==
    /\ upd.pc = "forward"
    /\ out_chan.rx
    /\ HasRoom(out_chan)
    /\ out_chan' = [out_chan EXCEPT !.buf = Append(@, upd.pkg)]
    /\ upd' = [upd EXCEPT !.pc = "recv", !.pkg = NoPackage]
    /\ UNCHANGED <<ledger, packages, blockchains, last_sync, selected_client, clock,
                   running, prod, io, raw_chan, pkg_chan, hist, calls, concVars, api>>

\* A mutant of FinishDoc: the document takes the watermark the pass started
\* with.
FinishDocStale(c, ls) == [label |-> Label(c), last_synchronization |-> hist.startSync]

\* The document update writes when the channel has closed.
FinishDoc(c, ls) == [label |-> Label(c), last_synchronization |-> ls[c]]

\* update: the channel is closed and empty; the ledger document takes the
\* client's watermark and update returns Ok(()).
UpdateFinish ==
    /\ upd.pc = "recv"
    /\ pkg_chan.buf = <<>>
    /\ ~pkg_chan.tx
    /\ blockchains' = BlockchainsUpdate(blockchains, Label(upd.client),
                                        FinishDoc(upd.client, last_sync))
    /\ upd' = [upd EXCEPT !.pc = "ok"]
    /\ pkg_chan' = [pkg_chan EXCEPT !.rx = FALSE]
    /\ UNCHANGED <<ledger, packages, last_sync, selected_client, clock, running,
                   prod, io, raw_chan, out_chan, hist, calls, concVars, api>>

\* The caller of update receives a package from the out channel.
CallerRecv ==
    /\ out_chan.buf # <<>>
    /\ out_chan' = [out_chan EXCEPT !.buf = Tail(@)]
    /\ hist' = [hist EXCEPT !.delivered = Append(@, Head(out_chan.buf))]
    /\ UNCHANGED <<ledger, packages, blockchains, last_sync, selected_client, clock,
                   running, upd, prod, io, raw_chan, pkg_chan, calls, concVars, api>>

\* ------------------------------------------- BlockchainClient::read_packages

\* read_packages up to the spawn of io.read: the subscription starts at the
\* client's watermark.
ReadPackagesStart ==
    /\ prod.pc = "start"
    /\ prod' = [prod EXCEPT !.pc = "recv"]
    /\ io' = [IdleIo EXCEPT !.pc = "subscribe", !.start = last_sync[prod.client]]
    /\ raw_chan' = NewChannel
    /\ UNCHANGED <<ledger, packages, blockchains, last_sync, selected_client, clock,
                   running, upd, pkg_chan, out_chan, hist, calls, concVars, api>>

\* What one turn of the loop of read_packages does with a received message:
\* "raise" (the ? on Err), "skip" (continue), "panic" or "send".
HandleRaw(m) ==
    IF ~m.ok THEN [act |-> "raise", pkg |-> NoPackage]
    ELSE LET d == DecodePackage(m.raw) IN
         IF d.res = "err" THEN [act |-> "skip", pkg |-> NoPackage]
         ELSE IF d.res = "panic" THEN [act |-> "panic", pkg |-> NoPackage]
         ELSE IF VerifyPackage(d.pkg) = "bad" THEN [act |-> "skip", pkg |-> NoPackage]
         ELSE IF VerifyPackage(d.pkg) = "panic" THEN [act |-> "panic", pkg |-> NoPackage]
         ELSE [act |-> "send", pkg |-> d.pkg]

\* read_packages: one message is received, decoded and verified.
ReadPackagesRecv ==
    /\ prod.pc = "recv"
    /\ raw_chan.buf # <<>>
    /\ LET m == Head(raw_chan.buf)
           h == HandleRaw(m)
       IN  CASE h.act = "send" ->
                  /\ prod' = [prod EXCEPT !.pc = "send", !.pkg = h.pkg]
                  /\ raw_chan' = [raw_chan EXCEPT !.buf = Tail(@)]
                  /\ UNCHANGED pkg_chan
             [] h.act = "skip" ->
                  /\ raw_chan' = [raw_chan EXCEPT !.buf = Tail(@)]
                  /\ UNCHANGED <<prod, pkg_chan>>
             [] h.act = "raise" ->
                  /\ prod' = [prod EXCEPT !.pc = "send_err", !.err = m.err]
                  /\ raw_chan' = [raw_chan EXCEPT !.buf = <<>>, !.rx = FALSE]
                  /\ UNCHANGED pkg_chan
             [] h.act = "panic" ->
                  /\ prod' = [prod EXCEPT !.pc = "panicked"]
                  /\ raw_chan' = [raw_chan EXCEPT !.buf = <<>>, !.rx = FALSE]
                  /\ pkg_chan' = [pkg_chan EXCEPT !.tx = FALSE]
    /\ UNCHANGED <<ledger, packages, blockchains, last_sync, selected_client, clock,
                   running, upd, io, out_chan, hist, calls, concVars, api>>

\* read_packages: tx_packages.send(Ok(trusted_package)).await.unwrap()
ReadPackagesSend ==
    /\ prod.pc = "send"
    /\ IF ~pkg_chan.rx
       THEN /\ prod' = [prod EXCEPT !.pc = "panicked", !.pkg = NoPackage]
            /\ pkg_chan' = [pkg_chan EXCEPT !.tx = FALSE]
            /\ raw_chan' = [raw_chan EXCEPT !.buf = <<>>, !.rx = FALSE]
       ELSE /\ HasRoom(pkg_chan)
            /\ pkg_chan' = [pkg_chan EXCEPT !.buf = Append(@, PkgOk(prod.pkg))]
            /\ prod' = [prod EXCEPT !.pc = "recv", !.pkg = NoPackage]
            /\ UNCHANGED raw_chan
    /\ UNCHANGED <<ledger, packages, blockchains, last_sync, selected_client, clock,
                   running, upd, io, out_chan, hist, calls, concVars, api>>

\* The task spawned by update: read_packages returned Err(e), which is sent on.
ReadPackagesSendErr ==
    /\ prod.pc = "send_err"
    /\ IF ~pkg_chan.rx
       THEN prod' = [prod EXCEPT !.pc = "panicked"] /\ pkg_chan' = [pkg_chan EXCEPT !.tx = FALSE]
       ELSE /\ HasRoom(pkg_chan)
            /\ pkg_chan' = [pkg_chan EXCEPT !.buf = Append(@, PkgErr(prod.err)), !.tx = FALSE]
            /\ prod' = [prod EXCEPT !.pc = "failed"]
    /\ UNCHANGED <<ledger, packages, blockchains, last_sync, selected_client, clock,
                   running, upd, io, raw_chan, out_chan, hist, calls, concVars, api>>

\* read_packages: the raw channel is closed and empty; the watermark is set
\* to the wall-clock time and read_packages returns Ok(()).
ReadPackagesEnd ==
    /\ prod.pc = "recv"
    /\ raw_chan.buf = <<>>
    /\ ~raw_chan.tx
    /\ \E now \in NowReadings(clock) :
          /\ clock' = now
          /\ last_sync' = [last_sync EXCEPT ![prod.client] = now]
    /\ prod' = [prod EXCEPT !.pc = "done"]
    /\ raw_chan' = [raw_chan EXCEPT !.rx = FALSE]
    /\ pkg_chan' = [pkg_chan EXCEPT !.tx = FALSE]
    /\ UNCHANGED <<ledger, packages, blockchains, selected_client, running,
                   upd, io, out_chan, hist, calls, concVars, api>>

\* --------------------------------------------- HederaBlockchainIO::read

\* new_topic_subscription succeeds: the stream yields the messages whose
\* consensus timestamp is at least the start time.
IoSubscribe ==
    /\ io.pc = "subscribe"
    /\ io' = [io EXCEPT !.pc = "stream",
                        !.first = IF io.start < 1 THEN 1 ELSE io.start,
                        !.cursor = IF io.start < 1 THEN 1 ELSE io.start]
    /\ UNCHANGED <<ledger, packages, blockchains, last_sync, selected_client, clock,
                   running, upd, prod, raw_chan, pkg_chan, out_chan, hist, calls, concVars, api>>

\* A mutant of IoSubscribeFail: the error is reported by the open stream,
\* after messages may have been handed on.
IoSubscribeFailLate(e) ==
    /\ io.pc = "stream"
    /\ raw_chan.rx
    /\ HasRoom(raw_chan)
    /\ raw_chan' = [raw_chan EXCEPT !.buf = Append(@, RawErr(e)), !.tx = FALSE]
    /\ io' = [io EXCEPT !.pc = "failed"]
    /\ UNCHANGED <<ledger, packages, blockchains, last_sync, selected_client, clock,
                   running, upd, prod, pkg_chan, out_chan, hist, calls, concVars, api>>

\* new_topic_subscription fails with e: Err(e) is sent and read returns.
IoSubscribeFail(e) ==
    /\ io.pc = "subscribe"
    /\ raw_chan.rx
    /\ HasRoom(raw_chan)
    /\ raw_chan' = [raw_chan EXCEPT !.buf = Append(@, RawErr(e)), !.tx = FALSE]
    /\ io' = [io EXCEPT !.pc = "failed"]
    /\ UNCHANGED <<ledger, packages, blockchains, last_sync, selected_client, clock,
                   running, upd, prod, pkg_chan, out_chan, hist, calls, concVars, api>>

\* The stream yields its next message within the timeout and the message is
\* sent on (the send panics when the receiver is gone).
IoNext ==
    /\ io.pc = "stream"
    /\ io.cursor <= Len(ledger)
    /\ IF ~raw_chan.rx
       THEN /\ io' = [io EXCEPT !.pc = "aborted"]
            /\ raw_chan' = [raw_chan EXCEPT !.tx = FALSE]
       ELSE /\ HasRoom(raw_chan)
            /\ raw_chan' = [raw_chan EXCEPT !.buf = Append(@, RawOk(ledger[io.cursor]))]
            /\ io' = [io EXCEPT !.cursor = @ + 1]
    /\ UNCHANGED <<ledger, packages, blockchains, last_sync, selected_client, clock,
                   running, upd, prod, pkg_chan, out_chan, hist, calls, concVars, api>>

\* A mutant of IoIdle: the loop ends and the sender of the raw channel is
\* kept alive.
IoIdleKeepSender ==
    /\ io.pc = "stream"
    /\ io.cursor > Len(ledger)
    /\ io' = [io EXCEPT !.pc = "done"]
    /\ UNCHANGED <<ledger, packages, blockchains, last_sync, selected_client, clock,
                   running, upd, prod, raw_chan, pkg_chan, out_chan, hist, calls,
                   concVars, api>>

\* No message within NEXT_MESSAGE_TIMEOUT: the loop ends, read returns.
IoIdle ==
    /\ io.pc = "stream"
    /\ io.cursor > Len(ledger)
    /\ io' = [io EXCEPT !.pc = "done"]
    /\ raw_chan' = [raw_chan EXCEPT !.tx = FALSE]
    /\ UNCHANGED <<ledger, packages, blockchains, last_sync, selected_client, clock,
                   running, upd, prod, pkg_chan, out_chan, hist, calls, concVars, api>>

\* The stream yields an error status, or ends: result.unwrap().unwrap()
\* panics and the task ends.
IoStreamError ==
    /\ io.pc = "stream"
    /\ io' = [io EXCEPT !.pc = "errored"]
    /\ raw_chan' = [raw_chan EXCEPT !.tx = FALSE]
    /\ UNCHANGED <<ledger, packages, blockchains, last_sync, selected_client, clock,
                   running, upd, prod, pkg_chan, out_chan, hist, calls, concVars, api>>

\* ------------------------------------------------------ cancellation

\* Messages published to the topic while a pass runs, by someone whose
\* messages do not verify.  They are not recorded in `ledger`, which holds the
\* messages published before.
LiveMessages == {EncodePackage(PkgForged)}

\* The stream yields, within the timeout, a message published just now.
IoNextLive(m) ==
    /\ io.pc = "stream"
    /\ io.cursor > Len(ledger)
    /\ IF ~raw_chan.rx
       THEN /\ io' = [io EXCEPT !.pc = "aborted"]
            /\ raw_chan' = [raw_chan EXCEPT !.tx = FALSE]
       ELSE /\ HasRoom(raw_chan)
            /\ raw_chan' = [raw_chan EXCEPT !.buf = Append(@, RawOk(m))]
            /\ UNCHANGED io
    /\ UNCHANGED <<ledger, packages, blockchains, last_sync, selected_client, clock,
                   running, upd, prod, pkg_chan, out_chan, hist, calls, concVars, api>>

\* The caller of update drops the receiver of the out channel during a pass.
DropOutReceiver ==
    /\ upd.pc \in {"recv", "forward"}
    /\ out_chan.rx
    /\ out_chan' = [out_chan EXCEPT !.buf = <<>>, !.rx = FALSE]
    /\ UNCHANGED <<ledger, packages, blockchains, last_sync, selected_client, clock,
                   running, upd, prod, io, raw_chan, pkg_chan, hist, calls, concVars, api>>

\* The caller drops the future of update during a pass: rx_packages is dropped
\* with it; the tasks it spawned are detached and go on.
DropUpdate ==
    /\ upd.pc \in {"recv", "forward"}
    /\ upd' = [upd EXCEPT !.pc = "dropped", !.pkg = NoPackage]
    /\ pkg_chan' = [pkg_chan EXCEPT !.buf = <<>>, !.rx = FALSE]
    /\ UNCHANGED <<ledger, packages, blockchains, last_sync, selected_client, clock,
                   running, prod, io, raw_chan, out_chan, hist, calls, concVars, api>>

\* update: tx_packages_update.send(package).await.unwrap() when the receiver
\* is gone: the unwrap panics, rx_packages is dropped.
UpdateForwardClosed ==
    /\ upd.pc = "forward"
    /\ ~out_chan.rx
    /\ upd' = [upd EXCEPT !.pc = "panicked", !.pkg = NoPackage]
    /\ pkg_chan' = [pkg_chan EXCEPT !.buf = <<>>, !.rx = FALSE]
    /\ UNCHANGED <<ledger, packages, blockchains, last_sync, selected_client, clock,
                   running, prod, io, raw_chan, out_chan, hist, calls, concVars, api>>

\* ------------------------------------------- messages of other publishers

\* The topic accepts a message that another node submits, at any time, also
\* while a pass runs.  Its consensus timestamp is its index; the clocks of the
\* host and of the ledger agree: the timestamp is not below the last
\* wall-clock reading of the host.
LedgerAccept(p) ==
    /\ running
    /\ Len(ledger) < MaxStream
    /\ Len(ledger) + 1 >= clock
    /\ ledger' = Append(ledger, EncodePackage(p))
    /\ UNCHANGED <<packages, blockchains, last_sync, selected_client, clock,
                   running, passVars, hist, calls, concVars, api>>

\* ------------------------------------------------- crash and restart

\* The process is killed during a pass: tasks, channels and the clients'
\* in-memory watermarks are lost; the database is kept.
Crash ==
    /\ running
    /\ upd.pc \in {"recv", "forward"}
    /\ ~hist.crashed
    /\ running' = FALSE
    /\ upd' = IdleUpd
    /\ prod' = IdleProd
    /\ io' = IdleIo
    /\ raw_chan' = NoChannel
    /\ pkg_chan' = NoChannel
    /\ out_chan' = NewChannel
    /\ selected_client' = 0
    /\ last_sync' = [c \in Clients |-> 0]
    /\ hist' = [hist EXCEPT !.crashed = TRUE, !.crashK = Len(hist.stored)]
    /\ UNCHANGED <<ledger, packages, blockchains, clock, calls, concVars, api>>

\* The process is started again: BlockchainsService::new runs
\* init_blockchains on the database that was kept.
Restart ==
    /\ ~running
    /\ running' = TRUE
    /\ blockchains' = InitBlockchainsDocs(blockchains)
    /\ last_sync' = InitBlockchainsSync(blockchains, last_sync)
    /\ UNCHANGED <<ledger, packages, selected_client, clock, passVars, hist,
                   calls, concVars, api>>

\* --------------------------------------- direct calls of PackagesService

\* PackagesService::add(p, client), called between passes.
CallAdd(p) ==
    /\ running
    /\ PassIdle
    /\ calls < MaxCalls
    /\ calls' = calls + 1
    /\ packages' = ServiceAdd(packages, p, Label(1))
    /\ UNCHANGED <<ledger, blockchains, last_sync, selected_client, clock, running,
                   passVars, hist, concVars, api>>

\* PackagesService::update_package(p, client), called between passes.
CallUpdatePackage(p) ==
    /\ running
    /\ PassIdle
    /\ calls < MaxCalls
    /\ calls' = calls + 1
    /\ packages' = ServiceUpdatePackage(packages, p, Label(1))
    /\ UNCHANGED <<ledger, blockchains, last_sync, selected_client, clock, running,
                   passVars, hist, concVars, api>>

\* --------------------------- concurrent calls of process_package_update

\* The tasks that call process_package_update concurrently.
Tasks == {1, 2}

\* The packages they handle.
TaskPackages == {PkgP, PkgP2, PkgQ}

NewTask(p) == [pc |-> "check_lock", pkg |-> p, found |-> FALSE]

\* DbClient::get_packages_collection: self.instance.lock().await
DbLock(t) ==
    /\ tasks[t].pc \in {"check_lock", "write_lock"}
    /\ db_mutex = 0
    /\ db_mutex' = t
    /\ tasks' = [tasks EXCEPT ![t].pc =
                    IF tasks[t].pc = "check_lock" THEN "check_coll" ELSE "write_coll"]
    /\ UNCHANGED <<ledger, packages, blockchains, last_sync, selected_client, clock,
                   running, passVars, hist, calls, api>>

\* DbClient::get_packages_collection: .collection(name) is returned and the
\* guard, a temporary of that statement, is dropped.
DbCollection(t) ==
    /\ tasks[t].pc \in {"check_coll", "write_coll"}
    /\ db_mutex = t
    /\ db_mutex' = 0
    /\ tasks' = [tasks EXCEPT ![t].pc =
                    IF tasks[t].pc = "check_coll" THEN "check" ELSE "write"]
    /\ UNCHANGED <<ledger, packages, blockchains, last_sync, selected_client, clock,
                   running, passVars, hist, calls, api>>

\* process_package_update: packages_service.exists (find_one on the handle).
TaskExists(t) ==
    /\ tasks[t].pc = "check"
    /\ tasks' = [tasks EXCEPT ![t].pc = "write_lock",
                              ![t].found = ServiceExists(packages, tasks[t].pkg, Label(1))]
    /\ UNCHANGED <<ledger, packages, blockchains, last_sync, selected_client, clock,
                   running, passVars, hist, calls, db_mutex, api>>

\* process_package_update: update_package when the package exists, else add
\* (update_one / insert_one on the handle).
TaskWrite(t) ==
    /\ tasks[t].pc = "write"
    /\ packages' = IF tasks[t].found
                   THEN ServiceUpdatePackage(packages, tasks[t].pkg, Label(1))
                   ELSE ServiceAdd(packages, tasks[t].pkg, Label(1))
    /\ tasks' = [tasks EXCEPT ![t].pc = "done"]
    /\ UNCHANGED <<ledger, blockchains, last_sync, selected_client, clock,
                   running, passVars, hist, calls, db_mutex, api>>

\* ----------------------------------- calls of BlockchainsService, between passes

\* What a call leaves for its caller: "ok" or "panic".
Called(op, outcome, found) ==
    [op |-> op, selected |-> selected_client, outcome |-> outcome, found |-> found]

\* update with no client selected: get_selected_client panics at
\* expect("Blockchain id must be set ..."), before any task is spawned.
UpdateUnselected ==
    /\ running
    /\ PassIdle
    /\ selected_client = 0
    /\ calls < MaxCalls
    /\ calls' = calls + 1
    /\ api' = Called("update", "panic", <<>>)
    /\ UNCHANGED <<ledger, packages, blockchains, last_sync, selected_client, clock,
                   running, passVars, hist, concVars>>

\* find_package(name, version): get_selected_client, then get_by_release.
CallFindPackage(name, version) ==
    /\ running
    /\ PassIdle
    /\ calls < MaxCalls
    /\ calls' = calls + 1
    /\ api' = IF selected_client = 0
              THEN Called("find_package", "panic", <<>>)
              ELSE Called("find_package", "ok",
                          FindPackage(packages, name, version, selected_client))
    /\ UNCHANGED <<ledger, packages, blockchains, last_sync, selected_client, clock,
                   running, passVars, hist, concVars>>

\* submit_package(p): get_selected_client, then write_package, whose
\* io.write unwraps the result of the transaction (sent tells whether the
\* ledger took it).
CallSubmitPackage(p, sent) ==
    /\ running
    /\ PassIdle
    /\ calls < MaxCalls
    /\ Len(ledger) < MaxStream
    /\ calls' = calls + 1
    /\ IF selected_client # 0 /\ sent
       THEN /\ ledger' = Append(ledger, EncodePackage(p))
            /\ api' = Called("submit_package", "ok", <<>>)
       ELSE /\ api' = Called("submit_package", "panic", <<>>)
            /\ UNCHANGED ledger
    /\ UNCHANGED <<packages, blockchains, last_sync, selected_client, clock,
                   running, passVars, hist, concVars>>

\* ------------------------------------------- calls of the package library

\* archive_url values, and the field left unset.
UrlA == <<117, 49>>

UrlB == <<117, 50>>

Urls == {UrlA, UrlB}

\* PackageBuilder::build: the package with its archive_url (the field the
\* builder, the documents and the commands read; the codec of package.rs
\* reads and writes the other six).
WithUrl(p, url) ==
    [name |-> p.name, version |-> p.version, status |-> p.status,
     maintainer |-> p.maintainer, archive_url |-> url,
     integrity |-> p.integrity, sig |-> p.sig]

\* The packages handed to the library: built by PackageBuilder, signed by
\* their maintainer, by the other maintainer, or not signed.
BuiltPackages ==
    LET unsigned == {Unsigned(n, v, st, k) :
                        n \in {NameFoo, NameBar}, v \in {Version1, VersionEpoch},
                        st \in {StatusOutdated, StatusFine}, k \in {KeyA, KeyB}}
        Sigs(q) == {NoSig} \cup {SignPackage(q, k) : k \in {KeyA, KeyB}}
    IN  UNION {{WithUrl([q EXCEPT !.sig = sg], u) : sg \in Sigs(q), u \in Urls} :
                  q \in unsigned}

\* What a call of the library leaves for its caller.
LibCalled(op, arg, outcome, result) ==
    [op |-> op, selected |-> selected_client, outcome |-> outcome,
     found |-> result, arg |-> arg]

\* PackageBuilder::from_rlp(&rlp::encode(&p))?.build() for a signed p.  The
\* encoding holds no archive_url and Package::decode reads none: the
\* archive_url of the package built (u) does not come from p.
CallRoundTrip(p, u) ==
    /\ ~EncodePanics(p)
    /\ LET d == DecodePackage(EncodePackage(p)) IN
       api' = LibCalled("round_trip", p, d.res,
                        IF d.res = "ok" THEN WithUrl(d.pkg, u) ELSE NoPackage)
    /\ UNCHANGED <<ledger, packages, blockchains, last_sync, selected_client, clock,
                   running, passVars, hist, calls, concVars>>

\* BlockchainClient::write_package(p): rlp::encode(p), which panics when p has
\* no signature, then io.write(bytes).  The result holds the bytes handed to
\* io.write.
CallWritePackage(p) ==
    /\ api' = IF EncodePanics(p)
              THEN LibCalled("write_package", p, "panic", <<>>)
              ELSE LibCalled("write_package", p, "ok", <<EncodePackage(p)>>)
    /\ UNCHANGED <<ledger, packages, blockchains, last_sync, selected_client, clock,
                   running, passVars, hist, calls, concVars>>

\* The packages whose signed payload is compared with that of every built package.
PayloadSubjects ==
    {p \in BuiltPackages : /\ p.name = NameFoo /\ p.version = Version1
                           /\ p.status = StatusFine /\ p.archive_url = UrlA}

\* Package::compute_data_integrity of two packages, compared: the signed
\* payloads are "same" or "differ".
CallPayloads(p, q) ==
    /\ api' = LibCalled("payloads", p,
                        IF ComputeDataIntegrity(p) = ComputeDataIntegrity(q)
                        THEN "same" ELSE "differ", q)
    /\ UNCHANGED <<ledger, packages, blockchains, last_sync, selected_client, clock,
                   running, passVars, hist, calls, concVars>>

\* The packages handed to sign_package: built, not yet signed.
SignSubjects == {p \in PayloadSubjects : ~p.sig.some}

\* sign_package(signed, key), the signature attached to p, then verify_package.
CallSignVerify(signed, key, p) ==
    /\ LET candidate == [p EXCEPT !.sig = SignPackage(signed, key)] IN
       api' = LibCalled("sign_verify", candidate, VerifyPackage(candidate),
                        [signed |-> signed, key |-> key])
    /\ UNCHANGED <<ledger, packages, blockchains, last_sync, selected_client, clock,
                   running, passVars, hist, calls, concVars>>

\* verify_package(p) on a built package.
CallVerify(p) ==
    /\ api' = LibCalled("verify", p, VerifyPackage(p), <<>>)
    /\ UNCHANGED <<ledger, packages, blockchains, last_sync, selected_client, clock,
                   running, passVars, hist, calls, concVars>>

\* rlp::decode of a message and, when it gives a package, verify_package of it.
CallDecodeVerify(raw) ==
    /\ LET d == DecodePackage(raw) IN
       api' = LibCalled("decode_verify", raw,
                        IF d.res = "ok" THEN VerifyPackage(d.pkg) ELSE d.res, <<>>)
    /\ UNCHANGED <<ledger, packages, blockchains, last_sync, selected_client, clock,
                   running, passVars, hist, calls, concVars>>

\* ------------------------------------------------------ submit_package

\* A package built without set_signature.
PkgUnsigned == Unsigned(NameFoo, Version1, StatusFine, KeyA)

\* A mutant of SubmitPackage: the package is also put in the local store.
SubmitPackageStored(p, sent) ==
    /\ running
    /\ PassIdle
    /\ calls < MaxCalls
    /\ Len(ledger) < MaxStream
    /\ calls' = calls + 1
    /\ LET writes == IF selected_client = 0 \/ EncodePanics(p) THEN <<>>
                     ELSE <<[client |-> selected_client, data |-> EncodePackage(p)]>>
           outcome == IF writes # <<>> /\ sent THEN "ok" ELSE "panic"
       IN  /\ api' = LibCalled("submit_package", p, outcome, writes)
           /\ ledger' = IF outcome = "ok" THEN Append(ledger, EncodePackage(p)) ELSE ledger
           /\ packages' = IF outcome = "ok" THEN ServiceAdd(packages, p, Label(selected_client))
                          ELSE packages
    /\ UNCHANGED <<blockchains, last_sync, selected_client, clock,
                   running, passVars, hist, concVars>>

\* submit_package(p): get_selected_client (which panics when no client is
\* selected), then write_package on that client: create_io, rlp::encode(p)
\* (which panics when p has no signature) and io.write(bytes), which unwraps
\* the result of the transaction (sent tells whether the ledger took it).
\* The result holds the calls of io.write made: the client and the bytes.
SubmitPackage(p, sent) ==
    /\ running
    /\ PassIdle
    /\ calls < MaxCalls
    /\ Len(ledger) < MaxStream
    /\ calls' = calls + 1
    /\ LET writes == IF selected_client = 0 \/ EncodePanics(p) THEN <<>>
                     ELSE <<[client |-> selected_client, data |-> EncodePackage(p)]>>
           outcome == IF writes # <<>> /\ sent THEN "ok" ELSE "panic"
       IN  /\ api' = LibCalled("submit_package", p, outcome, writes)
           /\ ledger' = IF outcome = "ok" THEN Append(ledger, EncodePackage(p)) ELSE ledger
    /\ UNCHANGED <<packages, blockchains, last_sync, selected_client, clock,
                   running, passVars, hist, concVars>>

\* ------------------------------------------------------ the install command

\* The release "foo" "1" of maintainer A published with status st.
PkgOfStatus(st) == Signed(Unsigned(NameFoo, Version1, st, KeyA), KeyA)

\* A mutant of BelowOutdated: only NA is refused.
BelowProhibited(status) == status < StatusOutdated - 1

\* selected_package.status < PackageStatus::Outdated, by the derived
\* PartialOrd of the enum: the order of the discriminants.
BelowOutdated(status) == status < StatusOutdated

\* What the install command leaves: the package selected, the outcome and the
\* packages handed to install_from_url.
Installed(selected, outcome, installs) ==
    LibCalled("install", selected, outcome, installs)

\* InstallCommand::run after its update has returned: find_package, the
\* choice of one of the matches (selection, 1-based here; no choice can be
\* made among none and the unwrap panics), the check of the status, and
\* install_from_url, which succeeds (ok) or not.
InstallRun(name, version, selection, ok) ==
    /\ running
    /\ PassIdle
    /\ upd.pc \in {"ok", "err"}
    /\ calls < hist.pass
    /\ calls < MaxCalls
    /\ calls' = calls + 1
    /\ LET matching_packages == FindPackage(packages, name, version, selected_client) IN
       IF matching_packages = <<>>
       THEN api' = Installed(NoPackage, "panic", <<>>)
       ELSE /\ selection \in 1..Len(matching_packages)
            /\ LET selected_package == matching_packages[selection] IN
               api' = IF BelowOutdated(selected_package.status)
                      THEN Installed(selected_package, "refused", <<>>)
                      ELSE Installed(selected_package,
                                     IF ok THEN "installed" ELSE "failed",
                                     <<selected_package>>)
    /\ UNCHANGED <<ledger, packages, blockchains, last_sync, selected_client, clock,
                   running, passVars, hist, concVars>>

\* --------------------------------------------- queries over several ledgers

ScopePackages == {PkgP, PkgQ}

\* process_package_update(p, client) of a pass over the client of label `label`.
StoreUnder(p, label) ==
    /\ PassIdle
    /\ packages' = ProcessPackageUpdate(packages, p, label)
    /\ UNCHANGED <<ledger, blockchains, last_sync, selected_client, clock,
                   running, passVars, hist, calls, concVars, api>>

\* find_package(name, version) with a client selected: the rows read and the
\* packages built from them.
CallFindScoped(name, version) ==
    /\ PassIdle
    /\ selected_client # 0
    /\ api' = LibCalled("find_scoped", [name |-> name, version |-> version], "ok",
                        [docs |-> ReadByRelease(packages, name, version, Label(selected_client)),
                         pkgs |-> GetByRelease(packages, name, version, Label(selected_client))])
    /\ UNCHANGED <<ledger, packages, blockchains, last_sync, selected_client, clock,
                   running, passVars, hist, calls, concVars>>

\* get_by_maintainer(key, get_selected_client()), as the mutate command calls it.
CallGetByMaintainer(key) ==
    /\ PassIdle
    /\ selected_client # 0
    /\ LET docs == GetByMaintainerDocs(packages, key, Label(selected_client)) IN
       api' = LibCalled("get_by_maintainer", key, "ok",
                        [docs |-> docs,
                         pkgs |-> [i \in 1..Len(docs) |-> PackageFromDocument(docs[i])]])
    /\ UNCHANGED <<ledger, packages, blockchains, last_sync, selected_client, clock,
                   running, passVars, hist, calls, concVars>>

\* ------------------------------------------- calls on the composite key

\* Most rows of the store in the runs of the calls on the composite key.
MaxRows == MaxStream

\* The packages of those runs: two maintainers of one release, a version with
\* an epoch, and a version that ends with the key of another maintainer.
KeyPackages == {PkgP, PkgQ, PkgE, PkgAlias}

\* process_package_update(p, client), as a pass runs it for a received package.
StoreRow(p) ==
    /\ Len(packages) < MaxRows
    /\ StoreUnder(p, Label(1))

\* PackagesService::exists(p, client): the store it was asked on and its answer.
CallExists(p) ==
    /\ PassIdle
    /\ api' = LibCalled("exists", PackageDocument(p, Label(1)), "ok",
                        [rows |-> packages,
                         answer |-> ServiceExists(packages, p, Label(1))])
    /\ UNCHANGED <<ledger, packages, blockchains, last_sync, selected_client, clock,
                   running, passVars, hist, calls, concVars>>

\* get_composite_key_parts(get_composite_key(d)) for the document d of p, as
\* read_by_key and update compute it.
CallKeyParts(p) ==
    /\ PassIdle
    /\ LET d == PackageDocument(p, Label(1)) IN
       api' = LibCalled("key_parts", d, "ok", GetCompositeKeyParts(GetCompositeKey(d)))
    /\ UNCHANGED <<ledger, packages, blockchains, last_sync, selected_client, clock,
                   running, passVars, hist, calls, concVars>>

\* ------------------------------------------ the map deserializer of Package

\* enum Field of Deserialize for Package, in the order of its variants.
RECURSIVE FirstMissing(_, _)
RECURSIVE VisitMapFrom(_, _, _, _)

FieldNames == <<"name", "version", "status", "maintainer", "integrity", "sig">>

\* The field names of the documented JSON form of a package.
JsonFieldNames ==
    <<"name", "version", "status", "maintainer", "archive_url", "integrity", "sig">>

KeySet(names) == {names[i] : i \in DOMAIN names}

\* The value a map entry of key `key` carries for the built package p.
JsonValue(p, key) ==
    CASE key = "name" -> p.name
      [] key = "version" -> p.version
      [] key = "status" -> p.status
      [] key = "maintainer" -> p.maintainer
      [] key = "archive_url" -> p.archive_url
      [] key = "integrity" -> p.integrity
      [] key = "sig" -> p.sig

\* A JSON object: the entries of keys `keys`, in this order, each with the value
\* the built package pkg has for its key.
JsonObject(p, names) == [pkg |-> p, keys |-> names]

\* The match arms of visit_map storing a value: the Option that is filled.
StoreField(pkg, key, val) ==
    CASE key = "name" -> [pkg EXCEPT !.name = val]
      [] key = "version" -> [pkg EXCEPT !.version = val]
      [] key = "status" -> [pkg EXCEPT !.status = val]
      [] key = "maintainer" -> [pkg EXCEPT !.maintainer = val]
      [] key = "integrity" -> [pkg EXCEPT !.integrity = val]
      [] key = "sig" -> [pkg EXCEPT !.sig = val]

\* The field a duplicate_field error names: the Sig arm names "maintainer".
DuplicateName(key) == IF key = "sig" THEN "maintainer" ELSE key

\* The end of visit_map: the first field still None, in the order of the
\* ok_or_else lines; 0 when every field is set.
FirstMissing(seen, i) ==
    IF i > Len(FieldNames) THEN 0
    ELSE IF FieldNames[i] \notin seen THEN i
    ELSE FirstMissing(seen, i + 1)

\* PackageVisitor::visit_map from entry i of obj on, with the fields `seen` set in pkg.
\* res is "ok", "unknown_field", "duplicate_field", "missing_field", "custom"
\* (a status out of range) or "panic" (copy_from_slice, unwrap of the key).
VisitMapFrom(obj, i, seen, pkg) ==
    LET Fail(how, field) == [res |-> how, field |-> field, pkg |-> NoPackage] IN
    IF i > Len(obj.keys)
    THEN LET missing == FirstMissing(seen, 1) IN
         IF missing # 0 THEN Fail("missing_field", FieldNames[missing])
         ELSE [res |-> "ok", field |-> "", pkg |-> pkg]
    ELSE LET key == obj.keys[i]
             val == JsonValue(obj.pkg, key)
         IN  IF key \notin KeySet(FieldNames) THEN Fail("unknown_field", key)
             ELSE IF key \in seen THEN Fail("duplicate_field", DuplicateName(key))
             ELSE IF key = "status" /\ ~StatusInRange(val) THEN Fail("custom", key)
             ELSE IF key = "maintainer" /\ val.len # PUBLIC_KEY_LENGTH THEN Fail("panic", key)
             ELSE IF key = "maintainer" /\ val.val \notin ValidKeyVals THEN Fail("panic", key)
             ELSE IF key = "sig" /\ val.len # SIGNATURE_LENGTH THEN Fail("panic", key)
             ELSE VisitMapFrom(obj, i + 1, seen \cup {key}, StoreField(pkg, key, val))

VisitMap(obj) == VisitMapFrom(obj, 1, {}, NoPackage)

Swap(s, i, j) ==
    [k \in DOMAIN s |-> IF k = i THEN s[j] ELSE IF k = j THEN s[i] ELSE s[k]]

Drop(s, k) == SubSeq(s, 1, k - 1) \o SubSeq(s, k + 1, Len(s))

\* Orders of the fields, inputs without one field and inputs repeating one,
\* over the fields of the deserializer and over those of the JSON form.
JsonKeyOrders ==
    UNION {{Swap(names, i, j) : i \in DOMAIN names, j \in DOMAIN names}
           \cup {Drop(names, k) : k \in DOMAIN names}
           \cup {names \o <<names[k]>> : k \in DOMAIN names}
           \cup {<<names[k]>> \o names : k \in DOMAIN names}
           : names \in {FieldNames, JsonFieldNames}}

JsonInputs ==
    {JsonObject(p, names) : p \in {WithUrl(PkgP, UrlA), WithUrl(PkgQ, UrlB)},
                             names \in JsonKeyOrders}

\* serde_json::from_str::<Package> of a JSON object.
CallDeserialize(obj) ==
    /\ LET d == VisitMap(obj) IN
       api' = LibCalled("deserialize", obj, d.res, [field |-> d.field, pkg |-> d.pkg])
    /\ UNCHANGED <<ledger, packages, blockchains, last_sync, selected_client, clock,
                   running, passVars, hist, calls, concVars>>

\* ------------------------------------- mutex guards of the tasks of a pass

\* The tasks of a pass, each running the code below one instruction at a
\* time; tasks[t].held is the set of mutexes whose guard task t holds.
LockTasks == {"update", "read_packages", "io"}

\* DbClient.instance, BlockchainsService.blockchains_clients and
\* .selected_client, HederaBlockchain.last_sync
Mutexes == {"db", "clients", "selected", "last_sync"}

Instr(op, on, to) == [op |-> op, on |-> on, to |-> to, label |-> ""]

Labelled(instr, label) == [instr EXCEPT !.label = label]

\* mutex.lock().await, and the drop of the guard
Lock(m) == Instr("lock", m, "")

Unlock(m) == Instr("unlock", m, "")

\* rx.recv().await on channel ch: None leads to label `closed`.
Recv(ch, closed) == Instr("recv", ch, closed)

\* tx.send(..).await.unwrap() on channel ch
Send(ch) == Instr("send", ch, "")

\* tokio::spawn of task t
Spawn(t) == Instr("spawn", t, "")

Goto(label) == Instr("goto", "", label)

\* A branch on data: the next instruction, or the one at `label`.
Branch(label) == Instr("branch", "", label)

End == Labelled(Instr("end", "", ""), "end")

\* get_selected_client: the guard of the client list lives to the return, the
\* guard of the selected index is a temporary of its statement.
GetSelectedClientCode ==
    <<Lock("clients"), Lock("selected"), Unlock("selected"), Unlock("clients")>>

\* DbClient::get_packages_collection / get_blockchains_collection: the guard
\* is a temporary of the statement that takes the collection.
GetCollectionCode == <<Lock("db"), Unlock("db")>>

\* A mutant of LastSyncCode: the guard is handed back to the caller.
LastSyncCodeKeepGuard == <<Lock("last_sync")>>

\* HederaBlockchain::get_last_sync / set_last_sync: the guard lives to the return.
LastSyncCode == <<Lock("last_sync"), Unlock("last_sync")>>

\* BlockchainsService::update.  process_package_update takes the packages
\* collection twice: in exists and in update_package or add.
UpdateCode ==
    GetSelectedClientCode
    \o <<Spawn("read_packages")>>
    \o GetSelectedClientCode
    \o <<Labelled(Recv("pkg", "finish"), "loop"), Branch("end")>>
    \o GetCollectionCode \o GetCollectionCode
    \o <<Send("out"), Goto("loop")>>
    \o <<Labelled(Goto("sync"), "finish")>>
    \o <<Labelled(Head(LastSyncCode), "sync")>> \o Tail(LastSyncCode)
    \o GetCollectionCode
    \o <<End>>

\* The task spawned by update: BlockchainClient::read_packages, and the send
\* of its error.
ReadPackagesCode ==
    LastSyncCode
    \o <<Spawn("io")>>
    \o <<Labelled(Recv("raw", "finish"), "loop"), Branch("raise"), Branch("loop"),
          Send("pkg"), Goto("loop")>>
    \o <<Labelled(Goto("sync"), "finish")>>
    \o <<Labelled(Head(LastSyncCode), "sync")>> \o Tail(LastSyncCode)
    \o <<Goto("end")>>
    \o <<Labelled(Send("pkg"), "raise")>>
    \o <<End>>

\* The task spawned by read_packages: HederaBlockchainIO::read.
IoReadCode ==
    <<Labelled(Branch("end"), "loop"), Send("raw"), Goto("loop"), End>>

\* Concurrent calls of the service, each made once, and the task that a call
\* of update spawns; the two of the pass are given by their mutexes only.
RegistryTasks ==
    {"init_blockchains", "set_client", "get_selected_client", "find_package",
     "submit_package", "update_call", "read_packages_call"}

\* init_blockchains (one client): the guard of the client list lives through
\* the loop; read_by_key, then set_last_sync or create.
InitBlockchainsCode ==
    <<Lock("clients")>>
    \o GetCollectionCode
    \o <<Branch("create")>>
    \o LastSyncCode
    \o <<Goto("done")>>
    \o <<Labelled(Head(GetCollectionCode), "create")>> \o Tail(GetCollectionCode)
    \o <<Labelled(Unlock("clients"), "done")>>
    \o <<End>>

\* set_client that looks the index up in the client list under its guard.
SetClientCodeChecked ==
    <<Lock("selected"), Lock("clients"), Unlock("clients"), Unlock("selected"), End>>

\* set_client: the guard of the selected index lives to the return.
SetClientCode == <<Lock("selected"), Unlock("selected"), End>>

\* find_package: get_selected_client (a panic with no client selected drops
\* both guards and ends the call), then read_by_release.
FindPackageCode ==
    GetSelectedClientCode \o <<Branch("end")>> \o GetCollectionCode \o <<End>>

\* submit_package: get_selected_client, then write_package, which takes no mutex.
SubmitPackageCode == GetSelectedClientCode \o <<End>>

\* update: get_selected_client twice, process_package_update for every
\* package received, get_last_sync and the update of the ledger document.
UpdateLocksCode ==
    GetSelectedClientCode
    \o <<Branch("end")>>
    \o GetSelectedClientCode
    \o <<Labelled(Branch("finish"), "loop")>>
    \o GetCollectionCode \o GetCollectionCode
    \o <<Goto("loop")>>
    \o <<Labelled(Head(LastSyncCode), "finish")>> \o Tail(LastSyncCode)
    \o GetCollectionCode
    \o <<End>>

\* read_packages: get_last_sync, and set_last_sync unless it returns an error.
ReadPackagesLocksCode ==
    LastSyncCode \o <<Branch("end")>> \o LastSyncCode \o <<End>>

Code(t) ==
    CASE t = "update" -> UpdateCode
      [] t = "read_packages" -> ReadPackagesCode
      [] t = "io" -> IoReadCode
      [] t = "init_blockchains" -> InitBlockchainsCode
      [] t = "set_client" -> SetClientCode
      [] t = "get_selected_client" -> GetSelectedClientCode \o <<End>>
      [] t = "find_package" -> FindPackageCode
      [] t = "submit_package" -> SubmitPackageCode
      [] t = "update_call" -> UpdateLocksCode
      [] t = "read_packages_call" -> ReadPackagesLocksCode

\* The index of the instruction of task t that carries `label`.
LabelIndex(t, label) == CHOOSE i \in DOMAIN Code(t) : Code(t)[i].label = label

\* Task t is at an instruction of kind op.
At(t, op) == tasks[t].pc \in DOMAIN Code(t) /\ Code(t)[tasks[t].pc].op = op

Cur(t) == Code(t)[tasks[t].pc]

Chan(ch) ==
    CASE ch = "raw" -> raw_chan
      [] ch = "pkg" -> pkg_chan
      [] ch = "out" -> out_chan

\* Channel ch becomes c; the other channels stay.
SetChan(ch, c) ==
    /\ raw_chan' = IF ch = "raw" THEN c ELSE raw_chan
    /\ pkg_chan' = IF ch = "pkg" THEN c ELSE pkg_chan
    /\ out_chan' = IF ch = "out" THEN c ELSE out_chan

\* The channels task t sends on and receives from are closed on its side.
CloseChans(t) ==
    /\ raw_chan' = IF t = "io" THEN [raw_chan EXCEPT !.tx = FALSE]
                   ELSE IF t = "read_packages" THEN [raw_chan EXCEPT !.buf = <<>>, !.rx = FALSE]
                   ELSE raw_chan
    /\ pkg_chan' = IF t = "read_packages" THEN [pkg_chan EXCEPT !.tx = FALSE]
                   ELSE IF t = "update" THEN [pkg_chan EXCEPT !.buf = <<>>, !.rx = FALSE]
                   ELSE pkg_chan
    /\ out_chan' = out_chan

LockFrame ==
    UNCHANGED <<ledger, packages, blockchains, last_sync, selected_client, clock,
                running, upd, prod, io, hist, calls, db_mutex, api>>

\* update is called with a client selected.
StartUpdate ==
    /\ selected_client # 0
    /\ \A t \in LockTasks : tasks[t].pc = 0
    /\ tasks' = [tasks EXCEPT !["update"].pc = 1]
    /\ pkg_chan' = NewChannel
    /\ UNCHANGED <<raw_chan, out_chan>>
    /\ LockFrame

\* lock().await returns once no task holds the guard.
StepLock(t) ==
    /\ At(t, "lock")
    /\ \A u \in DOMAIN tasks : Cur(t).on \notin tasks[u].held
    /\ tasks' = [tasks EXCEPT ![t].pc = @ + 1, ![t].held = @ \cup {Cur(t).on}]
    /\ UNCHANGED <<raw_chan, pkg_chan, out_chan>>
    /\ LockFrame

StepUnlock(t) ==
    /\ At(t, "unlock")
    /\ tasks' = [tasks EXCEPT ![t].pc = @ + 1, ![t].held = @ \ {Cur(t).on}]
    /\ UNCHANGED <<raw_chan, pkg_chan, out_chan>>
    /\ LockFrame

\* tokio::spawn; read_packages creates the raw channel before it spawns.
StepSpawn(t) ==
    /\ At(t, "spawn")
    /\ tasks' = [tasks EXCEPT ![t].pc = @ + 1, ![Cur(t).on].pc = 1]
    /\ raw_chan' = IF Cur(t).on = "io" THEN NewChannel ELSE raw_chan
    /\ UNCHANGED <<pkg_chan, out_chan>>
    /\ LockFrame

\* recv: a message, or None once every sender is gone and the buffer empty.
StepRecv(t) ==
    /\ At(t, "recv")
    /\ LET c == Chan(Cur(t).on) IN
       \/ /\ c.buf # <<>>
          /\ SetChan(Cur(t).on, [c EXCEPT !.buf = Tail(@)])
          /\ tasks' = [tasks EXCEPT ![t].pc = @ + 1]
       \/ /\ c.buf = <<>> /\ ~c.tx
          /\ tasks' = [tasks EXCEPT ![t].pc = LabelIndex(t, Cur(t).to)]
          /\ UNCHANGED <<raw_chan, pkg_chan, out_chan>>
    /\ LockFrame

\* send: waits for room; with the receiver gone the unwrap panics and the
\* task ends, dropping what it holds.
StepSend(t) ==
    /\ At(t, "send")
    /\ LET c == Chan(Cur(t).on) IN
       \/ /\ c.rx /\ HasRoom(c)
          /\ SetChan(Cur(t).on, [c EXCEPT !.buf = Append(@, t)])
          /\ tasks' = [tasks EXCEPT ![t].pc = @ + 1]
       \/ /\ ~c.rx
          /\ CloseChans(t)
          /\ tasks' = [tasks EXCEPT ![t].pc = Len(Code(t)) + 1, ![t].held = {}]
    /\ LockFrame

StepGoto(t) ==
    /\ At(t, "goto")
    /\ tasks' = [tasks EXCEPT ![t].pc = LabelIndex(t, Cur(t).to)]
    /\ UNCHANGED <<raw_chan, pkg_chan, out_chan>>
    /\ LockFrame

StepBranch(t) ==
    /\ At(t, "branch")
    /\ \E next \in {tasks[t].pc + 1, LabelIndex(t, Cur(t).to)} :
          tasks' = [tasks EXCEPT ![t].pc = next]
    /\ UNCHANGED <<raw_chan, pkg_chan, out_chan>>
    /\ LockFrame

\* The task returns: its ends of the channels are dropped.
StepEnd(t) ==
    /\ At(t, "end")
    /\ tasks' = [tasks EXCEPT ![t].pc = Len(Code(t)) + 1, ![t].held = {}]
    /\ CloseChans(t)
    /\ LockFrame

\* The caller of update takes a package from the out channel.
CallerTake ==
    /\ out_chan.buf # <<>>
    /\ out_chan' = [out_chan EXCEPT !.buf = Tail(@)]
    /\ UNCHANGED <<raw_chan, pkg_chan, tasks>>
    /\ LockFrame

\* A call of the service is made (read_packages_call: the task is spawned).
StartCall(t) ==
    /\ tasks[t].pc = 0
    /\ tasks' = [tasks EXCEPT ![t].pc = 1]
    /\ UNCHANGED <<raw_chan, pkg_chan, out_chan>>
    /\ LockFrame

\* A step of call t.
CallStep(t) ==
    \/ StepLock(t)
    \/ StepUnlock(t)
    \/ StepGoto(t)
    \/ StepBranch(t)
    \/ StepEnd(t)

\* ------------------------------------------------------- specifications

NextSync ==
    \/ \E c \in Clients : SetClient(c)
    \/ InitBlockchains
    \/ UpdateStart
    \/ UpdateRecv
    \/ UpdateForward
    \/ UpdateFinish
    \/ CallerRecv
    \/ ReadPackagesStart
    \/ ReadPackagesRecv
    \/ ReadPackagesSend
    \/ ReadPackagesSendErr
    \/ ReadPackagesEnd
    \/ IoSubscribe
    \/ \E e \in BlockchainErrors : IoSubscribeFail(e)
    \/ IoNext
    \/ IoIdle
    \/ IoStreamError

Next == NextSync

Spec == Init /\ [][Next]_vars

\* Passes over streams that hold messages that do not decode.
InitMalformed ==
    /\ ledger \in SeqsUpTo(MalformedMessages, MaxStream)
    /\ tasks = NoTasks
    /\ InitCommon

SpecMalformed == InitMalformed /\ [][Next]_vars

\* Passes over validly signed messages, with a crash and a restart.
InitCrash ==
    /\ ledger \in SeqsUpTo(SignedMessages, MaxStream)
    /\ tasks = NoTasks
    /\ InitCommon

NextCrash ==
    \/ NextSync
    \/ Crash
    \/ Restart

SpecCrash == InitCrash /\ [][NextCrash]_vars

\* Passes and direct calls of add and update_package, one after the other.
StoreMessages == {EncodePackage(PkgP), EncodePackage(PkgP2)}

InitStore ==
    /\ ledger \in SeqsUpTo(StoreMessages, MaxStream)
    /\ tasks = NoTasks
    /\ InitCommon

NextStore ==
    \/ NextSync
    \/ \E p \in TaskPackages : CallAdd(p)
    \/ \E p \in TaskPackages : CallUpdatePackage(p)

SpecStore == InitStore /\ [][NextStore]_vars

\* Passes over the releases of one maintainer, any of which may fail.
SpecRetry == InitStore /\ [][Next]_vars

\* Two tasks that run process_package_update at the same time, on an empty
\* store or on a store that holds a row.
InitConc ==
    /\ ledger = <<>>
    /\ tasks \in [Tasks -> {NewTask(p) : p \in TaskPackages}]
    /\ InitCommon

NextConc ==
    \/ \E t \in Tasks : DbLock(t)
    \/ \E t \in Tasks : DbCollection(t)
    \/ \E t \in Tasks : TaskExists(t)
    \/ \E t \in Tasks : TaskWrite(t)

SpecConc == InitConc /\ [][NextConc]_vars

\* Passes and calls of update, find_package and submit_package with or
\* without a selected client.
InitApi ==
    /\ ledger \in SeqsUpTo({EncodePackage(PkgP)}, 1)
    /\ tasks = NoTasks
    /\ InitCommon

NextApi ==
    \/ NextSync
    \/ UpdateUnselected
    \/ \E name \in {NameFoo, NameBar} : CallFindPackage(name, Version1)
    \/ \E p \in {PkgP, PkgQ}, sent \in BOOLEAN : CallSubmitPackage(p, sent)

SpecApi == InitApi /\ [][NextApi]_vars

\* The service is started on a database that holds no ledger document, or
\* the document an earlier run left.
StoredBlockchains ==
    {<<>>} \cup {<<[label |-> Label(1), last_synchronization |-> k]>> : k \in 0..MaxTime}

InitStored ==
    /\ ledger \in SeqsUpTo({EncodePackage(PkgP)}, 1)
    /\ tasks = NoTasks
    /\ packages = <<>>
    /\ blockchains \in StoredBlockchains
    /\ last_sync = [c \in Clients |-> 0]
    /\ selected_client = 0
    /\ clock = PersistedSync(blockchains, Label(1))
    /\ running = FALSE
    /\ upd = IdleUpd
    /\ prod = IdleProd
    /\ io = IdleIo
    /\ raw_chan = NoChannel
    /\ pkg_chan = NoChannel
    /\ out_chan = NewChannel
    /\ hist = NoHist
    /\ calls = 0
    /\ db_mutex = 0
    /\ api = NoCall

NextStored ==
    \/ NextSync
    \/ Restart

SpecInit == InitStored /\ [][NextStored]_vars

\* Calls of the package library (codec, signatures) on built packages.
InitPackage ==
    /\ ledger = <<>>
    /\ tasks = NoTasks
    /\ InitCommon

NextPackage ==
    \/ \E p \in BuiltPackages, u \in Urls : CallRoundTrip(p, u)
    \/ \E p \in BuiltPackages : CallWritePackage(p)
    \/ \E p \in PayloadSubjects, q \in BuiltPackages : CallPayloads(p, q)
    \/ \E signed \in SignSubjects, key \in {KeyA, KeyB}, p \in BuiltPackages :
            CallSignVerify(signed, key, p)
    \/ \E p \in BuiltPackages : CallVerify(p)
    \/ \E raw \in DecodableMessages \cup MalformedMessages : CallDecodeVerify(raw)

SpecPackage == InitPackage /\ [][NextPackage]_vars

\* Passes that the caller may cancel, over a topic that may keep receiving
\* messages.  Every task that can take a step eventually takes one; what the
\* stream yields, and whether the caller receives, is not up to the scheduler.
CancelMessages == {EncodePackage(PkgP), EncodePackage(PkgForged)}

InitCancel ==
    /\ ledger \in SeqsUpTo(CancelMessages, MaxStream)
    /\ tasks = NoTasks
    /\ InitCommon

UpdateStep == UpdateRecv \/ UpdateForward \/ UpdateForwardClosed \/ UpdateFinish

ReadPackagesStep ==
    \/ ReadPackagesStart
    \/ ReadPackagesRecv
    \/ ReadPackagesSend
    \/ ReadPackagesSendErr
    \/ ReadPackagesEnd

IoStep ==
    \/ IoSubscribe
    \/ \E e \in BlockchainErrors : IoSubscribeFail(e)
    \/ IoNext
    \/ \E m \in LiveMessages : IoNextLive(m)
    \/ IoIdle
    \/ IoStreamError

NextCancel ==
    \/ \E c \in Clients : SetClient(c)
    \/ UpdateStart
    \/ UpdateStep
    \/ ReadPackagesStep
    \/ IoStep
    \/ CallerRecv
    \/ DropOutReceiver
    \/ DropUpdate

SpecCancel ==
    /\ InitCancel
    /\ [][NextCancel]_vars
    /\ WF_vars(UpdateStep)
    /\ WF_vars(ReadPackagesStep)
    /\ WF_vars(IoStep)

\* Passes and calls of submit_package, of signed and unsigned packages, with
\* or without a selected client.
NextSubmit ==
    \/ NextSync
    \/ \E p \in {PkgP, PkgUnsigned}, sent \in BOOLEAN : SubmitPackage(p, sent)

SpecSubmit == InitPackage /\ [][NextSubmit]_vars

\* The install command over topics that hold the release "foo" "1" of
\* maintainer A with any status, alone or followed by that of maintainer B.
InstallLedgers ==
    {<<EncodePackage(PkgOfStatus(st))>> : st \in 0..MAX_STATUS}
       \cup {<<EncodePackage(PkgOfStatus(st)), EncodePackage(PkgQ)>> : st \in 0..MAX_STATUS}

InitInstall ==
    /\ ledger \in InstallLedgers
    /\ tasks = NoTasks
    /\ InitCommon

NextInstall ==
    \/ NextSync
    \/ \E name \in {NameFoo, NameBar}, selection \in 1..2, ok \in BOOLEAN :
            InstallRun(name, Version1, selection, ok)

SpecInstall == InitInstall /\ [][NextInstall]_vars

\* Calls of exists, update_package and the composite key on stores that
\* process_package_update filled.
NextKeys ==
    \/ \E p \in KeyPackages : StoreRow(p)
    \/ \E p \in KeyPackages : CallExists(p)
    \/ \E p \in KeyPackages : CallKeyParts(p)
    \/ \E p \in KeyPackages \cup {PkgP2} : CallUpdatePackage(p)

SpecKeys == InitPackage /\ [][NextKeys]_vars

\* Passes over a topic that other nodes publish to while the passes run.
NextLate ==
    \/ NextSync
    \/ \E p \in {PkgP, PkgQ} : LedgerAccept(p)

SpecLate == InitPackage /\ [][NextLate]_vars

\* Passes over finite streams of messages that verify, are skipped or make
\* read_packages panic, with a caller that keeps receiving.
TermMessages == {EncodePackage(PkgP), RawNotList, RawShortKey}

InitTerm ==
    /\ ledger \in SeqsUpTo(TermMessages, MaxStream)
    /\ tasks = NoTasks
    /\ InitCommon

\* A step of one of the tasks of a pass, or of the caller of update.
PassStep ==
    \/ UpdateRecv
    \/ UpdateForward
    \/ UpdateFinish
    \/ ReadPackagesStep
    \/ IoSubscribe
    \/ \E e \in BlockchainErrors : IoSubscribeFail(e)
    \/ IoNext
    \/ IoIdle
    \/ IoStreamError
    \/ CallerRecv

NextTerm ==
    \/ \E c \in Clients : SetClient(c)
    \/ UpdateStart
    \/ PassStep

SpecTerm == InitTerm /\ [][NextTerm]_vars

\* Concurrent calls of the service, mutex by mutex.
InitRegistry ==
    /\ ledger = <<>>
    /\ tasks = [t \in RegistryTasks |-> [pc |-> 0, held |-> {}]]
    /\ InitCommon

NextRegistry ==
    \/ \E t \in RegistryTasks : StartCall(t)
    \/ \E t \in RegistryTasks : CallStep(t)

SpecRegistry == InitRegistry /\ [][NextRegistry]_vars

\* A service over two clients, shared between a caller of update and a caller
\* of set_client.  Both ledgers hold the same messages.
BothClients == {1, 2}

InitShared ==
    /\ ledger \in SeqsUpTo({EncodePackage(PkgP), EncodePackage(PkgQ)}, MaxStream)
    /\ tasks = NoTasks
    /\ packages = <<>>
    /\ blockchains = <<[label |-> Label(1), last_synchronization |-> 0],
                       [label |-> Label(2), last_synchronization |-> 0]>>
    /\ last_sync = [c \in BothClients |-> 0]
    /\ selected_client = 0
    /\ clock = 0
    /\ running = TRUE
    /\ upd = IdleUpd
    /\ prod = IdleProd
    /\ io = IdleIo
    /\ raw_chan = NoChannel
    /\ pkg_chan = NoChannel
    /\ out_chan = NewChannel
    /\ hist = NoHist
    /\ calls = 0
    /\ db_mutex = 0
    /\ api = NoCall

NextShared ==
    \/ \E c \in BothClients : SetClientShared(c)
    \/ UpdateSpawn
    \/ UpdateSelect
    \/ PassStep

SpecShared == InitShared /\ [][NextShared]_vars

\* Queries over a store that holds rows of two ledgers.
NextScope ==
    \/ \E c \in Clients : SetClient(c)
    \/ \E p \in ScopePackages, label \in {Label(1), LabelOther} : StoreUnder(p, label)
    \/ \E p \in ScopePackages : CallFindScoped(p.name, p.version)
    \/ \E key \in {KeyA, KeyB} : CallGetByMaintainer(key)

SpecScope == InitPackage /\ [][NextScope]_vars

\* One pass, instruction by instruction, with its mutexes.
InitLocks ==
    /\ ledger = <<>>
    /\ tasks = [t \in LockTasks |-> [pc |-> 0, held |-> {}]]
    /\ InitCommon

NextLocks ==
    \/ \E c \in Clients : SetClient(c)
    \/ StartUpdate
    \/ \E t \in LockTasks : StepLock(t)
    \/ \E t \in LockTasks : StepUnlock(t)
    \/ \E t \in LockTasks : StepSpawn(t)
    \/ \E t \in LockTasks : StepRecv(t)
    \/ \E t \in LockTasks : StepSend(t)
    \/ \E t \in LockTasks : StepGoto(t)
    \/ \E t \in LockTasks : StepBranch(t)
    \/ \E t \in LockTasks : StepEnd(t)
    \/ CallerTake

SpecLocks == InitLocks /\ [][NextLocks]_vars

\* Deserializing JSON objects into packages.
NextJson == \E obj \in JsonInputs : CallDeserialize(obj)

SpecJson == InitPackage /\ [][NextJson]_vars

\* Passes over the releases of two maintainers.
ReleaseMessages ==
    {EncodePackage(PkgP), EncodePackage(PkgP2), EncodePackage(PkgQ),
     EncodePackage(PkgAlias)}

\* Long enough for two releases and a third package.
MaxRelease == MaxStream + 1

InitRelease ==
    /\ ledger \in SeqsUpTo(ReleaseMessages, MaxRelease)
    /\ tasks = NoTasks
    /\ InitCommon

SpecRelease == InitRelease /\ [][Next]_vars

\* Passes over messages with a status byte out of range.
StatusMessages == {RawBadStatus, EncodePackage(PkgBadStatus), EncodePackage(PkgP)}

InitStatus ==
    /\ ledger \in SeqsUpTo(StatusMessages, MaxStream)
    /\ tasks = NoTasks
    /\ InitCommon

SpecStatus == InitStatus /\ [][Next]_vars

\* --------------------------------------------------- properties of a pass

\* The signature of p is the signature of p's data under p's maintainer key.
SignatureVerifies(p) ==
    /\ p.sig.some
    /\ p.sig.val = p.maintainer.val \o ComputeDataIntegrity(p)

\* A raw message that carries a well-formed, validly signed package.
Legit(raw) ==
    /\ DecodePackage(raw).res = "ok"
    /\ SignatureVerifies(DecodePackage(raw).pkg)

RECURSIVE LegitPackages(_)
\* The packages of the legitimate messages of a stream, in stream order.
LegitPackages(raws) ==
    IF raws = <<>> THEN <<>>
    ELSE (IF Legit(Head(raws)) THEN <<DecodePackage(Head(raws)).pkg>> ELSE <<>>)
             \o LegitPackages(Tail(raws))

\* The messages the subscription of the current pass has handed over.
Handed == SubSeq(ledger, io.first, io.cursor - 1)

\* The messages the subscription of the current pass covers.
Covered == SubSeq(ledger, io.first, Len(ledger))

\* update has returned, its tasks have ended, the caller has drained the
\* out channel.
PassEnded ==
    /\ upd.pc \in {"ok", "err"}
    /\ prod.pc \in ProdTerminal
    /\ io.pc \in IoTerminal
    /\ out_chan.buf = <<>>

\* The pass ended by a clean end-of-stream in every task.
CleanEnd ==
    /\ PassEnded
    /\ upd.pc = "ok"
    /\ prod.pc = "done"
    /\ io.pc = "done"

HasRow(rows, doc) == \E i \in 1..Len(rows) : rows[i] = doc

InSeq(seq, x) == \E i \in 1..Len(seq) : seq[i] = x

\* The packages that the messages of a ledger carry.
MessagePackages == SignedPackages \cup {PkgForged}

\* Those whose signature verifies, and their documents.
VerifiedPackages == {p \in MessagePackages : SignatureVerifies(p)}

VerifiedDocuments ==
    {PackageDocument(p, Label(c)) : p \in VerifiedPackages, c \in Clients}

\* C1: a message whose signature does not verify against its embedded
\* maintainer key is never sent on the out channel and never written to the
\* packages store (what is sent verifies, every row is the document of a
\* package that verifies), and in a pass that ends cleanly every legitimate message handed over, those after
\* a forged one included, is delivered and stored.
C1_ForgedDropped ==
    /\ \A i \in 1..Len(out_chan.buf) : out_chan.buf[i] \in VerifiedPackages
    /\ \A i \in 1..Len(hist.delivered) : hist.delivered[i] \in VerifiedPackages
    /\ \A r \in 1..Len(packages) : packages[r] \in VerifiedDocuments
    /\ CleanEnd => /\ hist.delivered = LegitPackages(Handed)
                   /\ hist.stored = LegitPackages(Handed)

\* A clean pass in which a forged message came before a legitimate one, and
\* the legitimate one was delivered and stored.
C1_Witness ==
    /\ CleanEnd
    /\ \E i, j \in io.first..(io.cursor - 1) :
          /\ i < j
          /\ ledger[i] = EncodePackage(PkgForged)
          /\ Legit(ledger[j])
          /\ InSeq(hist.delivered, DecodePackage(ledger[j]).pkg)
          /\ HasRow(packages, PackageDocument(DecodePackage(ledger[j]).pkg, Label(upd.selected)))

\* C2: every undecodable message is skipped without an error and without
\* stopping the pass: when the subscription opened and the stream did not
\* fail, update returns Ok and every legitimate message the subscription
\* covers has been delivered and stored.
C2_UndecodableSkipped ==
    (PassEnded /\ io.pc \in {"done", "aborted"})
        => /\ upd.pc = "ok"
           /\ hist.delivered = LegitPackages(Covered)
           /\ hist.stored = LegitPackages(Covered)

\* C3: after a pass in which the transport failed (the subscription did not
\* open, the stream failed, or the reading task ended abnormally), the
\* in-memory and the persisted watermark are what they were before the pass.
C3_WatermarkKeptOnFailure ==
    (PassEnded /\ io.pc \in {"failed", "errored", "aborted"})
        => /\ last_sync[upd.client] = hist.startSync
           /\ PersistedSync(blockchains, Label(upd.client)) = hist.startDoc

\* C4: update returns Ok(()) only after a clean end-of-stream: the reading
\* task and the producer task both ran to their regular end, and every
\* message handed over was stored or skipped.
C4_OkOnlyAfterCleanEnd ==
    upd.pc = "ok" => /\ prod.pc = "done"
                     /\ io.pc = "done"
                     /\ io.cursor = Len(ledger) + 1

C8_SecondPassSameStore ==
    (CleanEnd /\ hist.prevOk /\ io.first = hist.prevFirst /\ io.cursor = hist.prevCursor)
        => packages = hist.startStore

\* The rows of the composite key of document d.
RowsOfKey(rows, d) ==
    {i \in 1..Len(rows) :
        /\ rows[i].blockchain_label = d.blockchain_label
        /\ rows[i].name = d.name
        /\ rows[i].version = d.version
        /\ rows[i].maintainer = d.maintainer}

\* C10: after a clean pass from an empty store that handed over two
\* legitimate messages of one composite key, the store holds one row of that
\* key, and the row is the document of the later message.
C10_LastWriteWins ==
    (CleanEnd /\ hist.startStore = <<>> /\ Len(LegitPackages(Handed)) = 2)
        => LET a == PackageDocument(LegitPackages(Handed)[1], Label(upd.selected))
               b == PackageDocument(LegitPackages(Handed)[2], Label(upd.selected))
           IN  GetCompositeKey(a) = GetCompositeKey(b)
                  => /\ Cardinality(RowsOfKey(packages, b)) = 1
                     /\ \A i \in RowsOfKey(packages, b) : packages[i] = b

\* ------------------------------------------- properties of the other runs

RECURSIVE RunPass(_, _, _)
\* The store one uninterrupted pass over the packages pkgs leaves.
RunPass(rows, pkgs, label) ==
    IF pkgs = <<>> THEN rows
    ELSE RunPass(ProcessPackageUpdate(rows, Head(pkgs), label), Tail(pkgs), label)

\* C6: the packages store never holds two rows of one composite key.
C6_OneRowPerKey ==
    \A i, j \in 1..Len(packages) :
        (/\ packages[i].blockchain_label = packages[j].blockchain_label
         /\ packages[i].name = packages[j].name
         /\ packages[i].version = packages[j].version
         /\ packages[i].maintainer = packages[j].maintainer) => i = j

\* C7: when the concurrent tasks have handled packages of one composite key on
\* a store that was empty, the store holds exactly one row of that key.
C7_SerializedUpsert ==
    (/\ DOMAIN tasks = Tasks
     /\ \A t \in Tasks : tasks[t].pc = "done"
     /\ \A t, u \in Tasks :
           GetCompositeKey(PackageDocument(tasks[t].pkg, Label(1)))
              = GetCompositeKey(PackageDocument(tasks[u].pkg, Label(1))))
        => \A t \in Tasks :
              Cardinality(RowsOfKey(packages, PackageDocument(tasks[t].pkg, Label(1)))) = 1

\* C9: a first pass was interrupted after k < N of the N messages were
\* processed; the clean pass after the restart hands over all N messages and
\* leaves the store one uninterrupted pass over them leaves.
C9_ResumedPassSameStore ==
    (CleanEnd /\ hist.crashed /\ hist.pass = 2 /\ hist.crashK < Len(ledger))
        => /\ Handed = ledger
           /\ packages = RunPass(<<>>, LegitPackages(ledger), Label(upd.selected))

\* ------------------------------------------------ properties of releases

\* No package after position i in pkgs has the composite key of pkgs[i].
LastOfKey(pkgs, i) ==
    \A k \in (i + 1)..Len(pkgs) :
        GetCompositeKey(PackageDocument(pkgs[k], Label(1)))
            # GetCompositeKey(PackageDocument(pkgs[i], Label(1)))

\* C11: after a clean pass from an empty store, two valid packages of the
\* pass with the same name and version and different maintainers, neither
\* followed by a package of its own key, are both returned by
\* find_package(name, version).
C11_BothMaintainersFound ==
    LET pkgs == LegitPackages(Handed) IN
    (CleanEnd /\ hist.startStore = <<>>)
       => \A i, j \in 1..Len(pkgs) :
             (/\ pkgs[i].name = pkgs[j].name
              /\ pkgs[i].version = pkgs[j].version
              /\ pkgs[i].maintainer # pkgs[j].maintainer
              /\ LastOfKey(pkgs, i)
              /\ LastOfKey(pkgs, j))
                => LET found == FindPackage(packages, pkgs[i].name, pkgs[i].version,
                                            upd.selected)
                   IN  InSeq(found, pkgs[i]) /\ InSeq(found, pkgs[j])

\* ------------------------------------------------ properties of delivery

\* The messages the subscription of the current pass has read from the
\* ledger: those handed over, and the one whose send found the channel closed.
ReadMessages ==
    SubSeq(ledger, io.first, IF io.pc = "aborted" THEN io.cursor ELSE io.cursor - 1)

IsPrefix(short, long) ==
    /\ Len(short) <= Len(long)
    /\ short = SubSeq(long, 1, Len(short))

\* C12: the packages delivered on the out channel are, in ledger order and
\* without repetition, the packages of the messages read from the ledger that
\* decode and verify; when update has returned Ok none of them is missing.
C12_DeliveredInLedgerOrder ==
    /\ IsPrefix(hist.delivered \o out_chan.buf, LegitPackages(ReadMessages))
    /\ (PassEnded /\ upd.pc = "ok") => hist.delivered = LegitPackages(ReadMessages)

\* ------------------------------------------------ properties of errors

\* C13: when read_packages has reported an error e, update returns Err(e)
\* with that same error, and the ledger document is not written: no step
\* changes the ledger documents once the error is reported, and the persisted
\* watermark is the one from before the pass.
C13_ErrorReturned ==
    /\ []((prod.err # "none" /\ upd.pc \in {"ok", "err"})
            => /\ upd.pc = "err"
               /\ upd.result = prod.err
               /\ upd.result \in BlockchainErrors
               /\ PersistedSync(blockchains, Label(upd.client)) = hist.startDoc)
    /\ [][prod'.err # "none" => blockchains' = blockchains]_vars

\* A pass in which the connection failed has ended with that error.
C13_Witness ==
    /\ PassEnded
    /\ prod.pc = "failed"
    /\ prod.err = "ConnectionFailure"
    /\ upd.pc = "err"
    /\ upd.result = "ConnectionFailure"

\* ------------------------------------------------ properties of the rows

\* C14: the packages store being empty at the start, every row always
\* verifies: the package built from the row has a signature that is the
\* signature of the row's data fields under the row's maintainer key.
C14_RowsVerify ==
    \A r \in 1..Len(packages) : SignatureVerifies(PackageFromDocument(packages[r]))

\* A clean pass stored a package and then overwrote its row with a later
\* package of the same key.
C14_Witness ==
    /\ CleanEnd
    /\ HasRow(packages, PackageDocument(PkgP2, Label(upd.selected)))
    /\ \E i, j \in io.first..(io.cursor - 1) :
          /\ i < j
          /\ ledger[i] = EncodePackage(PkgP)
          /\ ledger[j] = EncodePackage(PkgP2)

\* ------------------------------------------------ properties of the status

\* The third item of the message is a byte above the last PackageStatus.
BadStatus(raw) ==
    /\ HasDataAt(raw, 3)
    /\ U8Ok(raw.items[3])
    /\ U8Value(raw.items[3]) > MAX_STATUS

\* The name, version, status and maintainer that the items of a message hold.
RawFields(raw) ==
    [name |-> raw.items[1].val, version |-> raw.items[2].val,
     status |-> U8Value(raw.items[3]), maintainer |-> raw.items[4].val]

\* C15: every row, and every package sent on the out channel, has a status
\* in 0..=5; no row and no delivered package has the fields of a message whose
\* status byte is out of range.
C15_StatusInRange ==
    /\ \A r \in 1..Len(packages) : packages[r].status \in 0..MAX_STATUS
    /\ \A i \in 1..Len(out_chan.buf) : out_chan.buf[i].status \in 0..MAX_STATUS
    /\ \A i \in 1..Len(hist.delivered) : hist.delivered[i].status \in 0..MAX_STATUS
    /\ \A k \in 1..Len(ledger) :
          BadStatus(ledger[k])
             => /\ \A r \in 1..Len(packages) :
                      [name |-> packages[r].name, version |-> packages[r].version,
                       status |-> packages[r].status,
                       maintainer |-> HexDecode(packages[r].maintainer)]
                          # RawFields(ledger[k])
                /\ \A i \in 1..Len(hist.delivered) :
                      [name |-> hist.delivered[i].name,
                       version |-> hist.delivered[i].version,
                       status |-> hist.delivered[i].status,
                       maintainer |-> hist.delivered[i].maintainer.val]
                          # RawFields(ledger[k])

\* A clean pass was handed a signed message with status byte 6 and then a
\* valid package, and stored only the valid package.
C15_Witness ==
    /\ CleanEnd
    /\ Handed = <<EncodePackage(PkgBadStatus), EncodePackage(PkgP)>>
    /\ packages = <<PackageDocument(PkgP, Label(upd.selected))>>
    /\ hist.delivered = <<PkgP>>

\* ------------------------------------------------ properties of an empty pass

\* The messages of the ledger at or after the watermark the pass started with.
Pending == SubSeq(ledger, IF hist.startSync < 1 THEN 1 ELSE hist.startSync, Len(ledger))

\* C16: a pass with no message at or after its watermark, in which the
\* connection to the ledger was made, returns Ok(()), delivers nothing and
\* leaves the packages store as it was.
C16_EmptyPassOk ==
    (PassEnded /\ Pending = <<>> /\ prod.err \notin {"ConnectionConfig", "ConnectionFailure"})
        => /\ upd.pc = "ok"
           /\ hist.delivered = <<>>
           /\ packages = hist.startStore

\* ------------------------------------------------ properties of the calls

\* C17: update, find_package and submit_package called with no client selected
\* return a NoActiveLedger error to the caller.
C17_NoActiveLedgerError ==
    (api.op # "none" /\ api.selected = 0) => api.outcome = "NoActiveLedger"

\* ------------------------------------------------ properties of init_blockchains

\* The ledger documents with the label of client c.
DocsOfLabel(docs, c) == {i \in 1..Len(docs) : docs[i].label = Label(c)}

\* C18: init_blockchains (at the start of the service, or called again) loads
\* the stored last_synchronization into the client of a ledger that has a
\* document and leaves the document alone, and creates a document with
\* last_synchronization 0 for a ledger that has none; once it has run there is
\* exactly one document for every configured label.
C18_InitBlockchains ==
    /\ [][(Restart \/ InitBlockchains)
            => \A c \in Clients :
                  IF DocsOfLabel(blockchains, c) # {}
                  THEN /\ blockchains' = blockchains
                       /\ \E i \in DocsOfLabel(blockchains, c) :
                             last_sync'[c] = blockchains[i].last_synchronization
                  ELSE /\ Len(blockchains') = Len(blockchains) + 1
                       /\ SubSeq(blockchains', 1, Len(blockchains)) = blockchains
                       /\ blockchains'[Len(blockchains')] =
                             [label |-> Label(c), last_synchronization |-> 0]]_vars
    /\ [](running => \A c \in Clients : Cardinality(DocsOfLabel(blockchains, c)) = 1)

\* The service has started on a database whose ledger document holds a
\* watermark above 0, and the client has taken it.
C18_Witness ==
    /\ running
    /\ hist.pass = 0
    /\ blockchains = <<[label |-> Label(1), last_synchronization |-> MaxTime]>>
    /\ last_sync[1] = MaxTime

\* ------------------------------------------------ properties of the watermark

\* C19: the ledger document is not written while the pass runs; the step in
\* which update returns Ok(()) comes after the task running read_packages has
\* ended and writes the client's watermark as it is then; after a clean pass
\* the persisted last_synchronization is the client's watermark.
C19_PersistedAfterWatermark ==
    /\ [][(upd.pc \in {"recv", "forward"} /\ upd'.pc # "ok") => blockchains' = blockchains]_vars
    /\ [][(upd.pc # "ok" /\ upd'.pc = "ok")
            => /\ prod.pc \in {"done", "panicked"}
               /\ last_sync' = last_sync
               /\ PersistedSync(blockchains', Label(upd.client)) = last_sync[upd.client]]_vars
    /\ [](CleanEnd => PersistedSync(blockchains, Label(upd.client)) = last_sync[upd.client])

\* A clean pass in which the client's watermark was raised, and the raised
\* value is the persisted one.
C19_Witness ==
    /\ CleanEnd
    /\ last_sync[upd.client] > hist.startSync
    /\ PersistedSync(blockchains, Label(upd.client)) = last_sync[upd.client]

\* ------------------------------------------------ publish, then observe

\* C20: after a clean pass, every validly signed package of the stream at or
\* after the watermark that no later package of its own key replaced has been
\* delivered on the out channel, and find_package(name, version) returns a
\* list that holds it.
C20_PublishedIsFound ==
    LET pkgs == LegitPackages(Covered) IN
    CleanEnd
       => \A i \in 1..Len(pkgs) :
             LastOfKey(pkgs, i)
                => /\ InSeq(hist.delivered, pkgs[i])
                   /\ InSeq(FindPackage(packages, pkgs[i].name, pkgs[i].version,
                                        upd.selected), pkgs[i])

\* ------------------------------------------------ properties of the codec

\* C21: decoding the wire encoding of a validly signed package gives a
\* package equal to it in every field, archive_url, integrity and sig
\* included.
C21_WireRoundTrip ==
    (api.op = "round_trip" /\ VerifyPackage(api.arg) = "ok")
        => api.outcome = "ok" /\ api.found = api.arg

\* C22: publishing a package that has no signature gives the caller an error
\* value, and no bytes of the package are handed to io.write.
C22_UnsignedRejected ==
    (api.op = "write_package" /\ ~api.arg.sig.some)
        => api.outcome = "error" /\ api.found = <<>>

\* C23: the wire encoding of a package is a list of 7 elements, and the signed
\* payloads of two packages differ when the packages differ in name, version,
\* status, maintainer, archive_url or integrity, and are the same when the
\* packages differ in sig only.
C23_SevenElementPayload ==
    api.op = "payloads" =>
        LET DataFields(p) == <<p.name, p.version, p.status, p.maintainer,
                                p.archive_url, p.integrity>>
        IN  /\ api.arg.sig.some => Len(EncodePackage(api.arg).items) = 7
            /\ DataFields(api.arg) # DataFields(api.found) => api.outcome = "differ"
            /\ DataFields(api.arg) = DataFields(api.found) => api.outcome = "same"

\* C24: a package carrying a signature made by sign_package verifies exactly
\* when the signing key is the key of the package's maintainer and the signed
\* data has the package's name, version, status, maintainer and integrity.
C24_VerifyIffSignedByMaintainer ==
    api.op = "sign_verify" =>
        LET SignedFields(p) == <<p.name, p.version, p.status, p.maintainer, p.integrity>>
        IN  api.outcome = "ok" <=>
                /\ api.found.key = api.arg.maintainer
                /\ SignedFields(api.found.signed) = SignedFields(api.arg)

C24_Witness ==
    /\ api.op = "sign_verify" /\ api.outcome = "ok"
    /\ api.found.key = api.arg.maintainer

\* C25: verification of any package value, one without signature or with an
\* unparseable maintainer key included, ends with a result, never with a panic.
C25_VerifyTotal ==
    api.op \in {"verify", "decode_verify"} => api.outcome \in {"ok", "bad", "err"}

\* C26: the map deserializer takes the seven fields in any order and gives the
\* package of their values; an input repeating a field gets a duplicate-field
\* error naming that field; an input without sig gets a missing-field error
\* naming sig.
C26_MapDeserializer ==
    api.op = "deserialize" =>
        LET keys == api.arg.keys
            Repeated == {keys[i] : i \in {j \in DOMAIN keys : \E k \in 1..(j - 1) : keys[k] = keys[j]}}
        IN  /\ (Repeated = {} /\ KeySet(keys) = KeySet(JsonFieldNames)) =>
                    /\ api.outcome = "ok"
                    /\ \A i \in DOMAIN keys :
                           JsonValue(api.found.pkg, keys[i]) = JsonValue(api.arg.pkg, keys[i])
            /\ Repeated # {} =>
                    api.outcome = "duplicate_field" /\ api.found.field \in Repeated
            /\ (Repeated = {} /\ "sig" \notin KeySet(keys)) =>
                    api.outcome = "missing_field" /\ api.found.field = "sig"

\* C27: once the caller has dropped the receiver of the out channel or the
\* future of update during a pass, eventually neither read_packages nor the IO
\* reading task of the pass is running.
C27_CancelledTasksEnd ==
    ((~out_chan.rx \/ upd.pc = "dropped") /\ upd.pc # "idle")
        ~> (prod.pc \in ProdTerminal /\ io.pc \in IoTerminal)

\* C28: every row find_package and get_by_maintainer read carries the label of
\* the selected client.
C28_QueriesScopedToLedger ==
    api.op \in {"find_scoped", "get_by_maintainer"} /\ api.outcome = "ok" =>
        \A i \in DOMAIN api.found.docs :
            api.found.docs[i].blockchain_label = Label(api.selected)

C28_Witness ==
    /\ api.op = "find_scoped" /\ api.outcome = "ok"
    /\ api.found.docs # <<>>
    /\ \E i \in DOMAIN packages :
          /\ packages[i].blockchain_label = LabelOther
          /\ packages[i].name = api.arg.name
          /\ packages[i].version = api.arg.version

\* C29: a task of the pass that is at a channel send or receive holds no
\* mutex guard.
C29_NoGuardAcrossChannel ==
    \A t \in LockTasks : (At(t, "send") \/ At(t, "recv")) => tasks[t].held = {}

C29_Witness ==
    /\ At("update", "send") /\ ~HasRoom(out_chan)
    /\ At("read_packages", "send") /\ ~HasRoom(pkg_chan)
    /\ At("io", "send") /\ ~HasRoom(raw_chan)

\* C30: when update has returned Err, the packages store, the ledger's
\* document and the client's watermark are what they were when the pass
\* started, so that a retry starts from the state the failed pass started from.
C30_FailedPassKeepsState ==
    upd.pc = "err" =>
        /\ packages = hist.startStore
        /\ PersistedSync(blockchains, Label(upd.client)) = hist.startDoc
        /\ last_sync[upd.client] = hist.startSync

\* A pass failed after an earlier pass had stored rows and raised the watermark.
C30_Witness ==
    /\ PassEnded
    /\ upd.pc = "err"
    /\ hist.startStore # <<>>
    /\ hist.startSync > 0
\* ------------------------------------------------ properties of submit_package

\* C31: submit_package(p) for a signed p, a client being selected, makes
\* exactly one call of io.write, on the IO of the selected client and with the
\* wire encoding of p, and leaves the packages store, the clients' watermarks
\* and the ledger documents as they were.
C31_SubmitWritesOnce ==
    [][(calls' # calls /\ api'.op = "submit_package"
          /\ selected_client # 0 /\ api'.arg.sig.some)
       => /\ api'.found = <<[client |-> selected_client,
                             data |-> EncodePackage(api'.arg)]>>
          /\ packages' = packages
          /\ last_sync' = last_sync
          /\ blockchains' = blockchains]_vars

\* A signed package was submitted to a selected ledger that had been synced:
\* the store holds a row and the watermark is set.
C31_Witness ==
    /\ api.op = "submit_package"
    /\ api.selected # 0
    /\ api.arg = PkgP
    /\ api.outcome = "ok"
    /\ Len(api.found) = 1
    /\ packages # <<>>
    /\ \E c \in Clients : last_sync[c] > 0

\* ------------------------------------------------ properties of the install command

\* C32: the install command hands to install_from_url only the package that
\* was selected, and only when its status is Outdated, Fine, Recommended or
\* HighlyRecommended; for a selected package of status NA or Prohibited it
\* returns without installing.
C32_InstallOnlyFromOutdated ==
    api.op = "install"
       => /\ \A i \in 1..Len(api.found) :
                /\ api.found[i] = api.arg
                /\ api.arg.status \in {2, 3, 4, 5}
          /\ (api.arg # NoPackage /\ api.arg.status \in {0, 1})
                => (api.found = <<>> /\ api.outcome = "refused")

\* A package of status Prohibited was selected and refused.
C32_Witness ==
    /\ api.op = "install"
    /\ api.arg # NoPackage
    /\ api.arg.status = 1
    /\ api.outcome = "refused"

\* A package of status Outdated was selected and handed to install_from_url.
C32_WitnessInstalled ==
    /\ api.op = "install"
    /\ api.arg.status = 2
    /\ api.found = <<api.arg>>

\* ------------------------------------------------ properties of the composite key

\* The four fields that make the composite key of a document.
KeyFields(d) ==
    [blockchain_label |-> d.blockchain_label, name |-> d.name,
     version |-> d.version, maintainer |-> d.maintainer]

\* C33: exists(p, client) answers true exactly when the store holds a row
\* whose blockchain_label, name, version and hex maintainer are those of p
\* under the client's label, also when a name or version holds ':'.
C33_ExistsIffRow ==
    api.op = "exists"
       => (api.found.answer
             <=> \E i \in 1..Len(api.found.rows) :
                    KeyFields(api.found.rows[i]) = KeyFields(api.arg))

\* C34: get_composite_key_parts(get_composite_key(d)) is
\* (d.blockchain_label, d.name, d.version, d.maintainer) for every document d.
C34_KeyRoundTrip ==
    api.op = "key_parts" => api.found = KeyFields(api.arg)

\* C40: update_package(p) leaves the number of rows as it was and changes no
\* row whose composite key is not that of p: a row that changed has, before
\* and after, the key fields of p (and none changes when no row has them).
C40_UpdateOnlyOwnRow ==
    [][calls' # calls
         => /\ Len(packages') = Len(packages)
            /\ \A i \in 1..Len(packages) :
                  packages'[i] # packages[i]
                     => KeyFields(packages[i]) = KeyFields(packages'[i])]_vars

\* ------------------------------------------------ store, then forward

\* C35 as stated: at the moment the caller receives a package from the out
\* channel, the store holds a row with the contents of that package.
C35_StoredWhenReceived ==
    [][Len(hist'.delivered) > Len(hist.delivered)
         => HasRow(packages, PackageDocument(Head(out_chan.buf), Label(upd.selected)))]_vars

\* C35, amended: at the moment update sends a package on the out channel the
\* store holds a row with the contents of that package, and update takes no
\* further message before that send; every package the caller receives was
\* stored, with its contents, earlier in the pass.
C35_StoredWhenForwarded ==
    /\ upd.pc = "forward"
          => HasRow(packages, PackageDocument(upd.pkg, Label(upd.selected)))
    /\ \A i \in 1..Len(out_chan.buf) :
          InSeq(hist.stored, out_chan.buf[i])
    /\ \A i \in 1..Len(hist.delivered) : InSeq(hist.stored, hist.delivered[i])
    /\ Len(hist.delivered) + Len(out_chan.buf) + (IF upd.pc = "forward" THEN 1 ELSE 0)
          = Len(hist.stored)

\* The caller holds a package whose row a later message of the same key has
\* replaced while the package waited on the out channel.
C35_Witness ==
    /\ hist.delivered # <<>>
    /\ ~HasRow(packages, PackageDocument(hist.delivered[Len(hist.delivered)],
                                         Label(upd.selected)))

\* ------------------------------------------------ no message is missed

\* C36: no validly signed message is missed for good.  A later pass
\* subscribes at the watermark, which never goes down, so a message below the
\* watermark is read by no later pass: when a pass has ended cleanly, every
\* validly signed message of the topic whose consensus timestamp is below the
\* client's watermark has its row in the store.
C36_NoMessageMissed ==
    CleanEnd
       => \A i \in 1..Len(ledger) :
             (Legit(ledger[i]) /\ i < last_sync[upd.client])
                => HasRow(packages,
                          PackageDocument(DecodePackage(ledger[i]).pkg, Label(upd.client)))

\* ------------------------------------------------ termination of a pass

\* update has not returned, or a task it spawned has not ended, or the caller
\* has packages left to receive.
PassUnfinished ==
    \/ upd.pc \notin UpdTerminal
    \/ prod.pc \notin ProdTerminal
    \/ io.pc \notin IoTerminal
    \/ out_chan.buf # <<>>

\* Some task of the pass, or the caller, can take a step.  The two receiving
\* steps handle whatever they receive: they can be taken when their channel
\* holds a message.
CanStep ==
    \/ upd.pc = "recv" /\ pkg_chan.buf # <<>>
    \/ prod.pc = "recv" /\ raw_chan.buf # <<>>
    \/ ENABLED <<\/ UpdateForward
                 \/ UpdateFinish
                 \/ ReadPackagesStart
                 \/ ReadPackagesSend
                 \/ ReadPackagesSendErr
                 \/ ReadPackagesEnd
                 \/ IoSubscribe
                 \/ IoNext
                 \/ IoIdle
                 \/ CallerRecv>>_vars

\* The messages the subscription may still yield.
Unread ==
    IF prod.pc = "start" \/ io.pc = "subscribe" THEN MaxStream + 1
    ELSE IF io.pc = "stream" /\ io.cursor <= Len(ledger) THEN Len(ledger) + 1 - io.cursor
    ELSE 0

\* What is left of a pass: every message weighs more the further it is from
\* the caller, every task more the further it is from its end.
Remaining ==
    8 * Unread
      + 6 * Len(raw_chan.buf)
      + (IF prod.pc \in {"send", "send_err"} THEN 5 ELSE 0)
      + 4 * Len(pkg_chan.buf)
      + (IF upd.pc = "forward" THEN 3 ELSE 0)
      + 2 * Len(out_chan.buf)
      + (IF io.pc = "subscribe" THEN 2 ELSE IF io.pc = "stream" THEN 1 ELSE 0)
      + (IF prod.pc \in ProdTerminal THEN 0 ELSE IF prod.pc = "start" THEN 5 ELSE 2)
      + (IF upd.pc \in UpdTerminal THEN 0 ELSE 1)

\* C37: a pass over a finite stream ends.  While update has not returned or a
\* task has not ended, some task (or the caller) can take a step: consumer,
\* producer and IO task never all wait on each other; and every such step
\* lowers what is left of the pass, which is never negative.  So when every
\* task that can step eventually does, update returns and the producer and
\* the IO task end.
C37_PassTerminates ==
    /\ [](PassUnfinished => CanStep)
    /\ [](Remaining >= 0)
    /\ [][PassStep => Remaining' < Remaining]_vars

\* update has returned Ok after packages went through the three channels.
C37_Witness ==
    /\ CleanEnd
    /\ hist.delivered # <<>>
    /\ Remaining = 0

\* ------------------------------------------------ the mutexes of the service

\* The order of the mutexes: the client list before the selected index, a
\* client's last_sync and the database handle.
Rank(m) == IF m = "clients" THEN 1 ELSE 2

\* Call t waits for a mutex that another call holds.
Blocked(t) ==
    /\ At(t, "lock")
    /\ \E u \in DOMAIN tasks : Cur(t).on \in tasks[u].held

\* The calls that hold mutex m.
Holders(m) == {u \in DOMAIN tasks : m \in tasks[u].held}

\* C38, the order: a call that waits for a mutex holds only mutexes that come
\* before it in the order, whatever the interleaving.
C38_LocksOrdered ==
    \A t \in DOMAIN tasks :
       At(t, "lock") => \A m \in tasks[t].held : Rank(m) < Rank(Cur(t).on)

\* C38, the wait: the mutex a call waits for is held by a call that has not
\* returned and can step, or that waits for a mutex whose holder can step.
C38_HolderCanStep ==
    \A t \in DOMAIN tasks :
       Blocked(t) =>
          \A u \in Holders(Cur(t).on) :
             /\ tasks[u].pc \in 1..Len(Code(u))
             /\ \/ ~Blocked(u)
                \/ \A v \in Holders(Cur(u).on) :
                      tasks[v].pc \in 1..Len(Code(v)) /\ ~Blocked(v)

\* C38, the release: a call that holds a mutex before and after its step has
\* moved forward in its code, so it gives the mutex up after a bounded number
\* of its steps, and a call that has returned holds none.
C38_HolderMovesOn ==
    \A t \in DOMAIN tasks :
       /\ tasks'[t] # tasks[t] /\ tasks[t].held # {} /\ tasks'[t].held # {}
             => tasks'[t].pc > tasks[t].pc
       /\ tasks'[t].pc > Len(Code(t)) => tasks'[t].held = {}

\* C38: the mutexes are taken in one order, and every call that waits for a
\* mutex gets it once the mutex serves its waiters in turn: the chain of
\* holders ends after two calls at one that can step, and no holder keeps a
\* mutex for more than the rest of a straight piece of code.
C38_NoCallWaitsForEver ==
    /\ []C38_LocksOrdered
    /\ []C38_HolderCanStep
    /\ [][C38_HolderMovesOn]_vars

\* init_blockchains holds the client list and waits for the database handle,
\* which find_package holds, while update waits for the client list.
C38_Witness ==
    /\ tasks["init_blockchains"].held = {"clients"}
    /\ Blocked("init_blockchains")
    /\ "db" \in tasks["find_package"].held
    /\ Blocked("update_call")

\* ------------------------------------------------ the ledger of a pass

\* C39: every package row and every ledger document that a step writes or
\* changes carries the label of the client the pass reads its messages from,
\* also when set_client is called while the pass starts or runs.
C39_PassKeepsToItsLedger ==
    [][/\ Len(packages') >= Len(packages)
       /\ \A i \in 1..Len(packages') :
             (i > Len(packages) \/ packages'[i] # packages[i])
                => /\ packages'[i].blockchain_label = Label(upd.client)
                   /\ i <= Len(packages)
                         => packages[i].blockchain_label = Label(upd.client)
       /\ \A i \in 1..Len(blockchains') :
             (i > Len(blockchains) \/ blockchains'[i] # blockchains[i])
                => blockchains'[i].label = Label(upd.client)]_vars

====
